---- MODULE Spec2Model ----
(***************************************************************************)
(* Statement builders of lib/mysqlx/statement.py.                          *)
(*                                                                         *)
(* Spec      : one filterable statement (Modify, Update, Remove, Delete,   *)
(*             Find, Select) driven by its fluent mutators and execute().  *)
(* SpecIndex : one CreateCollectionIndexStatement built from an index      *)
(*             descriptor and executed repeatedly.                         *)
(* SpecAdd, SpecSelect, SpecBind, SpecModify, SpecIdent, SpecPassThrough   *)
(* and SpecFind cover AddStatement, SelectStatement.get_sql, bind with     *)
(* every argument shape, the update mutators, the identifier functions,    *)
(* InsertStatement with SqlStatement, and the clauses of FindStatement.    *)
(*                                                                         *)
(* Python dicts are functions whose DOMAIN is the set of keys; Python      *)
(* strings whose characters the code inspects (upper(), startswith()) are  *)
(* sequences of one-character strings; other strings are atoms.            *)
(***************************************************************************)
EXTENDS Integers, Sequences, FiniteSets, TLC

VARIABLES
    kind,             \* class of the statement object
    has_where,        \* FilterableStatement.has_where
    where_str,        \* FilterableStatement._where
    where_expr,       \* FilterableStatement._where_expr
    binding_map,      \* FilterableStatement._binding_map
    has_limit,        \* FilterableStatement.has_limit
    limit_row_count,  \* FilterableStatement._limit_row_count
    limit_offset,     \* FilterableStatement._limit_offset
    has_sort,         \* FilterableStatement.has_sort
    sort_str,         \* FilterableStatement._sort_str
    sort_expr,        \* FilterableStatement._sort_expr
    has_bindings,     \* FilterableStatement.has_bindings
    bindings,         \* FilterableStatement._bindings
    lock_shared,      \* ReadStatement._lock_shared
    lock_exclusive,   \* ReadStatement._lock_exclusive
    update_ops,       \* ModifyStatement._update_ops / UpdateStatement._update_ops
    index_name,       \* CreateCollectionIndexStatement._index_name
    index_desc,       \* CreateCollectionIndexStatement._index_desc
    fields_desc,      \* CreateCollectionIndexStatement._fields_desc
    transport,        \* calls received by the connection, oldest first
    result,           \* outcome of the most recent call on the statement
    where_called,     \* the caller has invoked where() (constructor included)
    last_lock,        \* the most recent lock call the caller has made
    orig_desc,        \* the index_desc mapping the caller passed in, as it is now
    executed,         \* number of execute() calls made on the index statement
    has_group_by,     \* FilterableStatement.has_group_by
    grouping_str,     \* FilterableStatement._grouping_str
    grouping,         \* FilterableStatement._grouping
    has_having,       \* FilterableStatement.has_having
    having,           \* FilterableStatement._having
    projection_str,   \* FilterableStatement._projection_str
    has_projection,   \* FilterableStatement.has_projection
    projection_expr,  \* FilterableStatement._projection_expr
    values,           \* WriteStatement._values
    insert_fields,    \* InsertStatement._fields
    sql_text,         \* SqlStatement._sql
    identifier,       \* argument of the identifier functions
    sql_mode,         \* sql_mode argument of the identifier functions
    called,           \* mutator name -> argument of its most recent call
    last_args,        \* arguments of the most recent add(), bind() or update call
    parsed            \* texts the most recent call handed to the expression parser

filterVars == <<has_where, where_str, where_expr, binding_map, has_limit,
                limit_row_count, limit_offset, has_sort, sort_str,
                sort_expr, has_bindings, bindings, lock_shared,
                lock_exclusive, update_ops>>
indexVars == <<index_name, index_desc, fields_desc>>
groupVars == <<has_group_by, grouping_str, grouping, has_having, having,
               projection_str, has_projection, projection_expr>>
writeVars == <<values, insert_fields>>
sqlVars == <<sql_text>>
identVars == <<identifier, sql_mode>>
callerVars == <<where_called, last_lock, orig_desc, executed, called,
                last_args>>
vars == <<kind, filterVars, indexVars, groupVars, writeVars, sqlVars,
          identVars, transport, result, callerVars, parsed>>

----------------------------------------------------------------------------
(* Bounds of the exploration.                                              *)

MaxCalls == 2     \* transport calls recorded per statement
MaxOps == 1       \* update operations accumulated per statement
MaxBind == 1      \* bindings accumulated per statement
MaxFields == 2    \* field entries of an index descriptor
MaxExecutes == 3  \* execute() calls on one index statement

----------------------------------------------------------------------------
(* Python values.                                                          *)

None == "None"
EmptyDict == [k \in {} |-> 0]
Entry(k, v) == [x \in {k} |-> v]
Merge(f, g) ==
    [x \in DOMAIN f \cup DOMAIN g |-> IF x \in DOMAIN f THEN f[x] ELSE g[x]]
\* dict.pop(k) when k is present: the dict without k
Without(d, k) == [x \in DOMAIN d \ {k} |-> d[x]]
\* dict.pop(k, default): the value returned
PopValue(d, k, default) == IF k \in DOMAIN d THEN d[k] ELSE default

\* Outcome of a call: it returned (exc = None) or raised exc with message msg;
\* keys are the dict keys the message names.
Returned(op, value) ==
    [op |-> op, exc |-> None, msg |-> "", keys |-> {}, value |-> value]
Raised(op, exc, msg, keys) ==
    [op |-> op, exc |-> exc, msg |-> msg, keys |-> keys, value |-> None]
NoCall == Returned("__init__", None)

----------------------------------------------------------------------------
(* Collaborators: the expression parser and the connection.                *)

\* Texts handed to the parser: conditions, order specifications, paths.
ConditionTexts == {"a > 1", "a = :p", "a >"}
SortTexts == {"a desc", "a desc,"}
DocPaths == {<<"$", ".", "a">>, <<"a", ".", "b">>, <<"$", "$">>}

\* the parser accepts the text (it raises ValueError otherwise)
ExprParses(text) == text \in {"a > 1", "a = :p", "a desc"}
\* document_field() / parse_table_update_field() accept the path
PathParses(path) == path \in {<<>>, <<".", "a">>, <<"a", ".", "b">>}
\* ExprParser(text, table_mode).expr() / .parse_order_spec(): the tree
ParseTree(text, table_mode) == <<"tree", table_mode, text>>
\* ExprParser.placeholder_name_to_position after parsing text
Placeholders(text) == IF text = "a = :p" THEN Entry("p", 0) ELSE EmptyDict
\* What the connection returns from send_insert/update/delete/find
TransportResult == "Result"

----------------------------------------------------------------------------
(* Statement classes.                                                      *)

WriteKinds == {"ModifyStatement", "UpdateStatement", "RemoveStatement",
               "DeleteStatement"}
ReadKinds == {"FindStatement", "SelectStatement"}
FilterableKinds == WriteKinds \cup ReadKinds
\* classes whose constructor takes an optional condition
ConditionKinds == {"ModifyStatement", "DeleteStatement", "FindStatement"}
\* Statement._doc_based as set by each constructor
DocBased(k) == k \in {"ModifyStatement", "RemoveStatement", "FindStatement"}

\* attribute never assigned (reading it raises AttributeError)
Unset == <<>>
UnsetStr == "<unset>"
\* None held by an attribute that is later assigned an expression tree
NoExpr == <<"None">>

\* the variables of a component the statement at hand does not have
NoFilterState ==
    /\ has_where = FALSE
    /\ where_str = UnsetStr
    /\ where_expr = Unset
    /\ binding_map = EmptyDict
    /\ has_limit = FALSE
    /\ limit_row_count = 0
    /\ limit_offset = 0
    /\ has_sort = FALSE
    /\ sort_str = ""
    /\ sort_expr = Unset
    /\ has_bindings = FALSE
    /\ bindings = <<>>
    /\ lock_shared = FALSE
    /\ lock_exclusive = FALSE
    /\ update_ops = <<>>
    /\ where_called = FALSE
    /\ last_lock = None
NoGroupState ==
    /\ has_group_by = FALSE
    /\ grouping_str = <<>>
    /\ grouping = NoExpr
    /\ has_having = FALSE
    /\ having = NoExpr
    /\ projection_str = <<>>
    /\ has_projection = FALSE
    /\ projection_expr = NoExpr
NoIndexState ==
    /\ index_name = None
    /\ index_desc = EmptyDict
    /\ fields_desc = [list |-> <<>>]
    /\ orig_desc = EmptyDict
    /\ executed = 0
NoWriteState == values = <<>> /\ insert_fields = <<>>
NoSqlState == sql_text = None
NoIdentState == identifier = <<>> /\ sql_mode = <<>>

----------------------------------------------------------------------------
(* FilterableStatement and its subclasses.                                 *)

\* FilterableStatement.__init__ followed by the subclass constructor;
\* cond is the constructor's condition argument (None when not given).
\* A condition the parser rejects makes the constructor raise, so no
\* statement object exists for it.
InitFilterable(k, cond) ==
    /\ kind = k
    /\ has_where = (cond # None)
    /\ where_str = IF cond # None THEN cond ELSE UnsetStr
    /\ where_expr = IF cond # None THEN ParseTree(cond, ~DocBased(k)) ELSE Unset
    /\ binding_map = IF cond # None THEN Placeholders(cond) ELSE EmptyDict
    /\ has_limit = FALSE
    /\ limit_row_count = 0
    /\ limit_offset = 0
    /\ has_sort = FALSE
    /\ sort_str = ""
    /\ sort_expr = Unset
    /\ has_bindings = FALSE
    /\ bindings = <<>>
    /\ lock_shared = FALSE
    /\ lock_exclusive = FALSE
    /\ update_ops = <<>>
    /\ where_called = (cond # None)
    /\ last_lock = None
    /\ has_group_by = FALSE
    /\ grouping_str = <<>>
    /\ grouping = NoExpr
    /\ has_having = FALSE
    /\ having = NoExpr
    /\ projection_str = <<>>
    /\ has_projection = FALSE
    /\ projection_expr = NoExpr
    /\ called = IF cond # None THEN Entry("where", cond) ELSE EmptyDict
    /\ last_args = <<>>
    /\ parsed = IF cond # None THEN <<cond>> ELSE <<>>

\* FilterableStatement.where(condition)
Where(condition) ==
    /\ has_where' = TRUE
    /\ where_str' = condition
    /\ where_called' = TRUE
    /\ called' = Merge(Entry("where", condition), called)
    /\ IF ExprParses(condition)
       THEN /\ where_expr' = ParseTree(condition, ~DocBased(kind))
            /\ binding_map' = Placeholders(condition)
            /\ result' = Returned("where", "self")
       ELSE /\ UNCHANGED <<where_expr, binding_map>>
            /\ result' = Raised("where", "ProgrammingError",
                                "Invalid condition", {})
    /\ parsed' = <<condition>>
    /\ UNCHANGED <<kind, has_limit, limit_row_count, limit_offset, has_sort,
                   sort_str, sort_expr, has_bindings, bindings, lock_shared,
                   lock_exclusive, update_ops, indexVars, groupVars,
                   writeVars, sqlVars, identVars, transport, last_lock,
                   orig_desc, executed, last_args>>

\* FilterableStatement.limit(row_count, offset)
Limit(row_count, offset) ==
    /\ has_limit' = TRUE
    /\ limit_row_count' = row_count
    /\ limit_offset' = offset
    /\ result' = Returned("limit", "self")
    /\ called' = Merge(Entry("limit", <<row_count, offset>>), called)
    /\ parsed' = <<>>
    /\ UNCHANGED <<kind, has_where, where_str, where_expr, binding_map,
                   has_sort, sort_str, sort_expr, has_bindings, bindings,
                   lock_shared, lock_exclusive, update_ops, indexVars,
                   groupVars, writeVars, sqlVars, identVars, transport,
                   where_called, last_lock, orig_desc, executed, last_args>>

\* FilterableStatement.sort(clause)
Sort(clause) ==
    /\ has_sort' = TRUE
    /\ sort_str' = clause
    /\ called' = Merge(Entry("sort", clause), called)
    /\ IF ExprParses(clause)
       THEN /\ sort_expr' = ParseTree(clause, ~DocBased(kind))
            /\ result' = Returned("sort", "self")
       ELSE /\ UNCHANGED sort_expr
            /\ result' = Raised("sort", "ValueError", "", {})
    /\ parsed' = <<clause>>
    /\ UNCHANGED <<kind, has_where, where_str, where_expr, binding_map,
                   has_limit, limit_row_count, limit_offset, has_bindings,
                   bindings, lock_shared, lock_exclusive, update_ops,
                   indexVars, groupVars, writeVars, sqlVars, identVars,
                   transport, where_called, last_lock, orig_desc, executed,
                   last_args>>

\* FilterableStatement.bind(name, value)
Bind(name, value) ==
    /\ Len(bindings) < MaxBind
    /\ has_bindings' = TRUE
    /\ bindings' = Append(bindings, [name |-> name, value |-> value])
    /\ result' = Returned("bind", "self")
    /\ parsed' = <<>>
    /\ UNCHANGED <<kind, has_where, where_str, where_expr, binding_map,
                   has_limit, limit_row_count, limit_offset, has_sort,
                   sort_str, sort_expr, lock_shared, lock_exclusive,
                   update_ops, indexVars, groupVars, writeVars, sqlVars,
                   identVars, transport, callerVars>>

\* lock_shared() that forgets to clear the exclusive flag
LockShared_KeepsExclusive ==
    /\ kind \in ReadKinds
    /\ lock_shared' = TRUE
    /\ last_lock' = "shared"
    /\ result' = Returned("lock_shared", "self")
    /\ parsed' = <<>>
    /\ UNCHANGED <<kind, has_where, where_str, where_expr, binding_map,
                   has_limit, limit_row_count, limit_offset, has_sort,
                   sort_str, sort_expr, has_bindings, bindings, update_ops,
                   lock_exclusive, indexVars, groupVars, writeVars, sqlVars,
                   identVars, transport, where_called, orig_desc, executed,
                   called, last_args>>

\* ReadStatement.lock_shared()
LockShared ==
    /\ kind \in ReadKinds
    /\ lock_exclusive' = FALSE
    /\ lock_shared' = TRUE
    /\ last_lock' = "shared"
    /\ result' = Returned("lock_shared", "self")
    /\ parsed' = <<>>
    /\ UNCHANGED <<kind, has_where, where_str, where_expr, binding_map,
                   has_limit, limit_row_count, limit_offset, has_sort,
                   sort_str, sort_expr, has_bindings, bindings, update_ops,
                   indexVars, groupVars, writeVars, sqlVars, identVars,
                   transport, where_called, orig_desc, executed, called,
                   last_args>>

\* ReadStatement.lock_exclusive()
LockExclusive ==
    /\ kind \in ReadKinds
    /\ lock_exclusive' = TRUE
    /\ lock_shared' = FALSE
    /\ last_lock' = "exclusive"
    /\ result' = Returned("lock_exclusive", "self")
    /\ parsed' = <<>>
    /\ UNCHANGED <<kind, has_where, where_str, where_expr, binding_map,
                   has_limit, limit_row_count, limit_offset, has_sort,
                   sort_str, sort_expr, has_bindings, bindings, update_ops,
                   indexVars, groupVars, writeVars, sqlVars, identVars,
                   transport, where_called, orig_desc, executed, called,
                   last_args>>

\* a strip that removes every leading "$"
RECURSIVE StripDollar_All(_)
StripDollar_All(source) ==
    IF Len(source) > 0 /\ source[1] = "$"
    THEN StripDollar_All(Tail(source)) ELSE source

\* UpdateSpec.__init__ for the document-path update types
StripDollar(source) ==
    IF Len(source) > 0 /\ source[1] = "$" THEN Tail(source) ELSE source
DocUpdateSpec(update_type, source, value) ==
    [update_type |-> update_type,
     source |-> <<"identifier", StripDollar(source)>>,
     value |-> value]
\* UpdateSpec._table_set
TableUpdateSpec(source, value) ==
    [update_type |-> "SET", source |-> <<"column", source>>, value |-> value]

\* ModifyStatement.set(doc_path, value)
ModifySet(doc_path, value) ==
    /\ kind = "ModifyStatement"
    /\ Len(update_ops) < MaxOps
    /\ IF PathParses(StripDollar(doc_path))
       THEN /\ update_ops' =
                   Append(update_ops, DocUpdateSpec("ITEM_SET", doc_path, value))
            /\ result' = Returned("set", "self")
       ELSE /\ UNCHANGED update_ops
            /\ result' = Raised("set", "ValueError", "", {})
    /\ parsed' = <<StripDollar(doc_path)>>
    /\ UNCHANGED <<kind, has_where, where_str, where_expr, binding_map,
                   has_limit, limit_row_count, limit_offset, has_sort,
                   sort_str, sort_expr, has_bindings, bindings, lock_shared,
                   lock_exclusive, indexVars, groupVars, writeVars, sqlVars,
                   identVars, transport, callerVars>>

\* UpdateStatement.set(field, value)
UpdateSet(field, value) ==
    /\ kind = "UpdateStatement"
    /\ Len(update_ops) < MaxOps
    /\ IF PathParses(field)
       THEN /\ update_ops' = Append(update_ops, TableUpdateSpec(field, value))
            /\ result' = Returned("set", "self")
       ELSE /\ UNCHANGED update_ops
            /\ result' = Raised("set", "ValueError", "", {})
    /\ parsed' = <<field>>
    /\ UNCHANGED <<kind, has_where, where_str, where_expr, binding_map,
                   has_limit, limit_row_count, limit_offset, has_sort,
                   sort_str, sort_expr, has_bindings, bindings, lock_shared,
                   lock_exclusive, indexVars, groupVars, writeVars, sqlVars,
                   identVars, transport, callerVars>>

\* The connection method each execute() delegates to
TransportOp(k) ==
    CASE k \in {"ModifyStatement", "UpdateStatement"} -> "update"
      [] k \in {"RemoveStatement", "DeleteStatement"} -> "delete"
      [] OTHER -> "find"
\* What the connection is handed: the statement in its current state
Descriptor == [op |-> TransportOp(kind), where_expr |-> where_expr]

\* the test left out of every class but ModifyStatement
NoConditionFound_ModifyOnly == kind = "ModifyStatement" /\ ~has_where

\* the test "if not self.has_where" of the four write statements
NoConditionFound == ~has_where

\* ModifyStatement / UpdateStatement / RemoveStatement /
\* DeleteStatement .execute()
ExecuteWrite ==
    /\ kind \in WriteKinds
    /\ Len(transport) < MaxCalls
    /\ IF NoConditionFound
       THEN /\ result' = Raised("execute", "ProgrammingError",
                                "No condition was found", {})
            /\ UNCHANGED transport
       ELSE /\ transport' = Append(transport, Descriptor)
            /\ result' = Returned("execute", TransportResult)
    /\ parsed' = <<>>
    /\ UNCHANGED <<kind, filterVars, indexVars, groupVars, writeVars, sqlVars,
                   identVars, callerVars>>

\* ReadStatement.execute()
ExecuteRead ==
    /\ kind \in ReadKinds
    /\ Len(transport) < MaxCalls
    /\ transport' = Append(transport, Descriptor)
    /\ result' = Returned("execute", TransportResult)
    /\ parsed' = <<>>
    /\ UNCHANGED <<kind, filterVars, indexVars, groupVars, writeVars, sqlVars,
                   identVars, callerVars>>

\* Arguments the caller passes
LimitArgs == {<<10, 5>>, <<-1, 0>>}
BindNames == {"p"}
BindValues == {1}

Init ==
    /\ \E k \in FilterableKinds :
         \E cond \in {None} \cup {c \in ConditionTexts : ExprParses(c)} :
            /\ cond # None => k \in ConditionKinds
            /\ InitFilterable(k, cond)
    /\ index_name = None
    /\ index_desc = EmptyDict
    /\ fields_desc = [list |-> <<>>]
    /\ orig_desc = EmptyDict
    /\ executed = 0
    /\ NoWriteState
    /\ NoSqlState
    /\ NoIdentState
    /\ transport = <<>>
    /\ result = NoCall

Next ==
    \/ \E c \in ConditionTexts : Where(c)
    \/ \E a \in LimitArgs : Limit(a[1], a[2])
    \/ \E c \in SortTexts : Sort(c)
    \/ \E n \in BindNames, v \in BindValues : Bind(n, v)
    \/ LockShared
    \/ LockExclusive
    \/ \E p \in DocPaths, v \in BindValues : ModifySet(p, v)
    \/ \E p \in DocPaths, v \in BindValues : UpdateSet(p, v)
    \/ ExecuteWrite
    \/ ExecuteRead

Spec == Init /\ [][Next]_vars

----------------------------------------------------------------------------
(* Properties of the filterable statements, checked under Spec.            *)

\* C1: on a Modify, Update, Remove or Delete statement on which where() was
\* never called (by the caller or by the constructor), whatever other
\* mutators were called, every execute() raises the "no condition"
\* ProgrammingError and the connection has received no call.
C1_NoWhereNoTransport ==
    (kind \in WriteKinds /\ ~where_called) =>
        /\ transport = <<>>
        /\ result.op = "execute" =>
              /\ result.exc = "ProgrammingError"
              /\ result.msg = "No condition was found"

\* C1 witness: execute() has just been refused on a write statement that
\* never saw where() but did see limit(), sort() and bind().
C1_Witness ==
    /\ kind \in WriteKinds
    /\ ~where_called
    /\ has_limit /\ has_sort /\ Len(bindings) > 0
    /\ result.op = "execute"
    /\ result.msg = "No condition was found"

\* C2: every statement handed to the connection's update or delete
\* operation holds a parsed condition tree.
C2_SentStatementHasConditionTree ==
    \A i \in DOMAIN transport :
        transport[i].op \in {"update", "delete"} =>
            transport[i].where_expr # Unset

\* C3: a where() call that raises leaves has_where, the condition text, the
\* condition tree and the placeholder map as they were, and has_where
\* becomes set only in a where() call that returns.
C3_FailedWhereChangesNothing ==
    [][ /\ (result'.op = "where" /\ result'.exc # None) =>
              UNCHANGED <<has_where, where_str, where_expr, binding_map>>
        /\ (~has_where /\ has_where') =>
              (result'.op = "where" /\ result'.exc = None) ]_vars

\* C10: on a Find or Select statement the shared and exclusive lock flags
\* are never both set, both are unset until a lock call is made, and after
\* one exactly the lock of the most recent lock call is set.
C10_LockExclusivity ==
    kind \in ReadKinds =>
        /\ ~(lock_shared /\ lock_exclusive)
        /\ last_lock = None => (~lock_shared /\ ~lock_exclusive)
        /\ last_lock = "shared" => (lock_shared /\ ~lock_exclusive)
        /\ last_lock = "exclusive" => (lock_exclusive /\ ~lock_shared)

\* C10 witness: a read statement that other mutators have touched and whose
\* latest lock call, lock_shared(), has just returned.
C10_Witness ==
    /\ kind \in ReadKinds
    /\ has_where /\ has_limit
    /\ last_lock = "shared"
    /\ result.op = "lock_shared"
    /\ lock_shared

----------------------------------------------------------------------------
(* Strings whose characters CreateCollectionIndexStatement inspects.       *)

LowerCase == <<"a", "b", "c", "d", "e", "f", "g", "h", "i", "j", "k", "l",
               "m", "n", "o", "p", "q", "r", "s", "t", "u", "v", "w", "x",
               "y", "z">>
UpperCase == <<"A", "B", "C", "D", "E", "F", "G", "H", "I", "J", "K", "L",
               "M", "N", "O", "P", "Q", "R", "S", "T", "U", "V", "W", "X",
               "Y", "Z">>
UpperChar(c) ==
    IF \E i \in DOMAIN LowerCase : LowerCase[i] = c
    THEN UpperCase[CHOOSE i \in DOMAIN LowerCase : LowerCase[i] = c]
    ELSE c
\* str.upper()
Upper(str) == [i \in DOMAIN str |-> UpperChar(str[i])]
\* str.startswith(prefix)
StartsWith(str, prefix) ==
    /\ Len(str) >= Len(prefix)
    /\ SubSeq(str, 1, Len(prefix)) = prefix

INDEX == <<"I", "N", "D", "E", "X">>
SPATIAL == <<"S", "P", "A", "T", "I", "A", "L">>
GEOJSON == <<"G", "E", "O", "J", "S", "O", "N">>
TEXT == <<"T", "E", "X", "T">>

----------------------------------------------------------------------------
(* CreateCollectionIndexStatement.                                         *)

\* A Python value that is a list, or one that is not (a string here)
PyList(items) == [list |-> items]
PyStr(str) == [str |-> str]
IsList(v) == "list" \in DOMAIN v
\* bool(v)
Truthy(v) == IF IsList(v) THEN v.list # <<>> ELSE v.str # ""

\* ExprParser(name).expr().get_message(): the type of the parsed expression,
\* or ValueError when the name does not parse
NameParse(name) ==
    CASE name = "myIndex" -> "IDENT"
      [] name = "a + 1" -> "OPERATOR"
      [] OTHER -> "ValueError"

\* an execute() that takes any index name
ValidIndexName_Any(name) == TRUE

\* the index-name validation at the head of execute()
ValidIndexName(name) == name # None /\ NameParse(name) = "IDENT"

\* the SPATIAL test written without upper()
SpatialRequiredMissing_CaseSensitive(index_type, constraint) ==
    index_type = SPATIAL /\ ~constraint["required"]

\* "required" must be True when the index type is SPATIAL
SpatialRequiredMissing(index_type, constraint) ==
    Upper(index_type) = SPATIAL /\ ~constraint["required"]
\* the GEOJSON test written against the lower-case type name
GeoJsonUnderIndex_LowerCase(index_type, constraint) ==
    /\ Upper(index_type) = INDEX
    /\ constraint["type"] = <<"g", "e", "o", "j", "s", "o", "n">>

\* a GEOJSON field needs the index type SPATIAL
GeoJsonUnderIndex(index_type, constraint) ==
    Upper(index_type) = INDEX /\ constraint["type"] = GEOJSON
\* "collation" is accepted on the field
CollationAllowed(constraint) == StartsWith(Upper(constraint["type"]), TEXT)
\* "options" and "srid" accepted on every field type
GeoMemberAllowed_Always(constraint) == "type" \in DOMAIN constraint

\* "options" and "srid" are accepted on the field
GeoMemberAllowed(constraint) == Upper(constraint["type"]) = GEOJSON

IndexError(exc, msg, keys) == Raised("execute", exc, msg, keys)
\* outcome of one pass of the loop body over field_desc
FieldFailed(field_desc, msg, keys) ==
    [ok |-> FALSE, field_desc |-> field_desc, constraint |-> EmptyDict,
     err |-> IndexError("ProgrammingError", msg, keys)]
FieldDone(field_desc, constraint) ==
    [ok |-> TRUE, field_desc |-> field_desc, constraint |-> constraint,
     err |-> NoCall]

\* one of the three optional members: rejected when present and not
\* allowed, moved from field_desc into the constraint when allowed
OptionalMember(step, key, allowed, msg) ==
    IF ~step.ok \/ key \notin DOMAIN step.field_desc THEN step
    ELSE IF ~allowed THEN FieldFailed(step.field_desc, msg, {key})
    ELSE FieldDone(Without(step.field_desc, key),
                   Merge(step.constraint, Entry(key, step.field_desc[key])))

\* the constraint with "required" defaulting to True
BaseConstraint_RequiredByDefault(field_desc) ==
    [member |-> field_desc["field"], type |-> field_desc["type"],
     required |-> PopValue(field_desc, "required", TRUE)]

\* the three members every constraint starts with
BaseConstraint(field_desc) ==
    [member |-> field_desc["field"], type |-> field_desc["type"],
     required |-> PopValue(field_desc, "required", FALSE)]

\* the body of "for field_desc in self._fields_desc", with the except clause
ProcessField(index_type, field_desc) ==
    IF "field" \notin DOMAIN field_desc
    THEN FieldFailed(field_desc, "Required inner member not found",
                     {"field"})
    ELSE
    LET d1 == Without(field_desc, "field") IN
    IF "type" \notin DOMAIN d1
    THEN FieldFailed(d1, "Required inner member not found", {"type"})
    ELSE
    LET d3 == Without(Without(d1, "type"), "required")
        constraint == BaseConstraint(field_desc)
    IN
    IF SpatialRequiredMissing(index_type, constraint)
    THEN FieldFailed(d3, "required must be True for SPATIAL", {"required"})
    ELSE IF GeoJsonUnderIndex(index_type, constraint)
    THEN FieldFailed(d3, "GEOJSON needs index type SPATIAL", {"type"})
    ELSE
    LET s0 == FieldDone(d3, constraint)
        s1 == OptionalMember(s0, "collation", CollationAllowed(constraint),
                             "member not allowed for field type")
        s2 == OptionalMember(s1, "options", GeoMemberAllowed(constraint),
                             "member not allowed for field type")
    IN  OptionalMember(s2, "srid", GeoMemberAllowed(constraint),
                       "member not allowed for field type")

\* the whole loop from entry i on: the field entries as the loop leaves
\* them, the constraints appended, and the error that ended it (if any)
RECURSIVE FieldLoop(_, _, _, _)
FieldLoop(index_type, fields, i, constraints) ==
    IF i > Len(fields)
    THEN [ok |-> TRUE, fields |-> fields, constraints |-> constraints,
          err |-> NoCall]
    ELSE
    LET step == ProcessField(index_type, fields[i])
        after == [fields EXCEPT ![i] = step.field_desc]
    IN  IF step.ok
        THEN FieldLoop(index_type, after, i + 1,
                       Append(constraints, step.constraint))
        ELSE [ok |-> FALSE, fields |-> after, constraints |-> constraints,
              err |-> step.err]

\* the final loop left out
FirstLeftover_Skipped(fields) == 0 * Len(fields)

\* the final loop: the first field entry with keys left over, 0 if none
FirstLeftover(fields) ==
    IF \E i \in DOMAIN fields : fields[i] # EmptyDict
    THEN CHOOSE i \in DOMAIN fields :
            /\ fields[i] # EmptyDict
            /\ \A j \in 1..(i - 1) : fields[j] = EmptyDict
    ELSE 0

\* what one execute() leaves behind: the statement's two descriptors, the
\* outcome, and the args handed to the connection when it got that far
IndexOutcome(desc, fields, res, sent, args) ==
    [index_desc |-> desc, fields_desc |-> fields, result |-> res,
     sent |-> sent, args |-> args]

\* CreateCollectionIndexStatement.execute()
ExecuteIndex(name, desc, fields) ==
    IF ~ValidIndexName(name)
    THEN IndexOutcome(desc, fields,
            IndexError("ProgrammingError", "index name is not valid", {}),
            FALSE, EmptyDict)
    ELSE IF ~Truthy(fields)
    THEN IndexOutcome(desc, fields,
            IndexError("ProgrammingError", "Required member fields not found",
                       DOMAIN desc),
            FALSE, EmptyDict)
    ELSE IF ~IsList(fields)
    THEN IndexOutcome(desc, fields,
            IndexError("ProgrammingError", "fields must contain a list", {}),
            FALSE, EmptyDict)
    ELSE
    LET index_type == PopValue(desc, "type", INDEX)
        unique == PopValue(desc, "unique", FALSE)
        rest == Without(Without(desc, "type"), "unique")
    IN
    IF unique
    THEN IndexOutcome(rest, fields,
            IndexError("NotSupportedError",
                       "Unique indexes are not supported", {}),
            FALSE, EmptyDict)
    ELSE IF rest # EmptyDict
    THEN IndexOutcome(rest, fields,
            IndexError("ProgrammingError", "Unidentified fields", DOMAIN rest),
            FALSE, EmptyDict)
    ELSE
    LET loop == FieldLoop(index_type, fields.list, 1, <<>>)
        left == FirstLeftover(loop.fields)
        args == [name |-> name, collection |-> "collection",
                 schema |-> "schema", type |-> index_type,
                 unique |-> unique, constraint |-> loop.constraints]
    IN
    IF ~loop.ok
    THEN IndexOutcome(rest, PyList(loop.fields), loop.err, FALSE, EmptyDict)
    ELSE IF left # 0
    THEN IndexOutcome(rest, PyList(loop.fields),
            IndexError("ProgrammingError", "Unidentified inner fields",
                       DOMAIN loop.fields[left]),
            FALSE, EmptyDict)
    ELSE IndexOutcome(rest, PyList(loop.fields),
            Returned("execute", TransportResult), TRUE, args)

\* CreateCollectionIndexStatement.__init__(collection, index_name, index_desc)
InitIndexStatement(name, desc) ==
    /\ kind = "CreateCollectionIndexStatement"
    /\ orig_desc = desc
    /\ index_name = name
    /\ index_desc = Without(desc, "fields")
    /\ fields_desc = PopValue(desc, "fields", PyList(<<>>))

\* a constructor that copies the mapping but not its field entries
CallerDesc_ShallowCopy(given, desc, fields) ==
    IF "fields" \in DOMAIN given THEN [given EXCEPT !["fields"] = fields]
    ELSE given

\* what the caller's mapping holds once execute() has left the statement
\* with desc and fields: _index_desc is a deep copy, so the pop() calls on
\* it and on its field entries do not reach the mapping the caller passed
CallerDesc(given, desc, fields) == given

\* one call of execute() on the index statement
IndexExecute ==
    /\ kind = "CreateCollectionIndexStatement"
    /\ executed < MaxExecutes
    /\ executed' = executed + 1
    /\ LET out == ExecuteIndex(index_name, index_desc, fields_desc) IN
        /\ index_desc' = out.index_desc
        /\ fields_desc' = out.fields_desc
        /\ orig_desc' = CallerDesc(orig_desc, out.index_desc, out.fields_desc)
        /\ result' = out.result
        /\ transport' =
              IF out.sent
              THEN Append(transport,
                          [op |-> "execute_nonquery", args |-> out.args])
              ELSE transport
    /\ parsed' = IF index_name = None THEN <<>> ELSE <<index_name>>
    /\ UNCHANGED <<kind, filterVars, index_name, groupVars, writeVars,
                   sqlVars, identVars, where_called, last_lock, called,
                   last_args>>

----------------------------------------------------------------------------
(* Index descriptors the caller passes.                                    *)

IndexNames == {None, "myIndex", "a + 1", ""}
IndexTypes == {INDEX, SPATIAL, <<"s", "p", "a", "t", "i", "a", "l">>}
TEXT64 == <<"T", "E", "X", "T", "(", "6", "4", ")">>
INT == <<"I", "N", "T">>

\* a key that may be absent, or present with one of the values
Optional(key, vals) == {EmptyDict} \cup {Entry(key, v) : v \in vals}

\* field entries: each type with and without "required", each further
\* member on a type that allows it and on one that does not, an unknown
\* member, and entries lacking "field" or "type"
FieldDescs ==
    { [field |-> "$.a", type |-> TEXT64],
      [field |-> "$.a", type |-> TEXT64, required |-> TRUE],
      [field |-> "$.a", type |-> GEOJSON, required |-> TRUE],
      [field |-> "$.a", type |-> GEOJSON, required |-> FALSE] }
    \cup
    { Merge([field |-> "$.b", type |-> m[1], required |-> TRUE], m[2]) :
        m \in { <<TEXT64, [collation |-> "utf8mb4_bin"]>>,
                <<INT, [collation |-> "utf8mb4_bin"]>>,
                <<GEOJSON, [options |-> 2, srid |-> 4326]>>,
                <<INT, [options |-> 2]>>,
                <<TEXT64, [srid |-> 4326]>>,
                <<INT, [foo |-> 1]>> } }
    \cup
    { [type |-> INT], [field |-> "$.a"] }

FieldLists == UNION { [1..n -> FieldDescs] : n \in 0..MaxFields }

IndexDescs ==
    { Merge(Merge(Merge(f, t), u), x) :
        f \in Optional("fields", {PyList(l) : l \in FieldLists}
                                  \cup {PyStr("$.a")}),
        t \in Optional("type", IndexTypes),
        u \in Optional("unique", BOOLEAN),
        x \in Optional("foo", {1}) }

\* the descriptor has at most one field entry
FewFields(desc) ==
    IF "fields" \notin DOMAIN desc THEN TRUE
    ELSE IF ~IsList(desc["fields"]) THEN TRUE
    ELSE Len(desc["fields"].list) <= 1

\* an invalid name is combined with the descriptors of at most one field
InitIndex ==
    /\ \E name \in IndexNames :
         \E desc \in {d \in IndexDescs : name = "myIndex" \/ FewFields(d)} :
            InitIndexStatement(name, desc)
    /\ has_where = FALSE
    /\ where_str = UnsetStr
    /\ where_expr = Unset
    /\ binding_map = EmptyDict
    /\ has_limit = FALSE
    /\ limit_row_count = 0
    /\ limit_offset = 0
    /\ has_sort = FALSE
    /\ sort_str = ""
    /\ sort_expr = Unset
    /\ has_bindings = FALSE
    /\ bindings = <<>>
    /\ lock_shared = FALSE
    /\ lock_exclusive = FALSE
    /\ update_ops = <<>>
    /\ where_called = FALSE
    /\ last_lock = None
    /\ executed = 0
    /\ NoGroupState
    /\ NoWriteState
    /\ NoSqlState
    /\ NoIdentState
    /\ called = EmptyDict
    /\ last_args = <<>>
    /\ parsed = <<>>
    /\ transport = <<>>
    /\ result = NoCall

NextIndex == IndexExecute

SpecIndex == InitIndex /\ [][NextIndex]_vars

----------------------------------------------------------------------------
(* Properties of the index statement, checked under SpecIndex.  They are   *)
(* stated over the descriptor the caller passed (orig_desc), the outcome   *)
(* of the latest execute() and the calls the connection received.          *)

IsIndexStatement == kind = "CreateCollectionIndexStatement"
TopLevelKeys == {"fields", "type", "unique"}
InnerKeys == {"field", "type", "required", "collation", "options", "srid"}

\* the caller's descriptor as the data model reads it
GivenFieldList(desc) ==
    IF "fields" \in DOMAIN desc
    THEN IF IsList(desc["fields"]) THEN desc["fields"].list ELSE <<>>
    ELSE <<>>
GivenType(desc) == IF "type" \in DOMAIN desc THEN desc["type"] ELSE INDEX
GivenUnique(desc) == IF "unique" \in DOMAIN desc THEN desc["unique"] ELSE FALSE
GivenRequired(fd) == IF "required" \in DOMAIN fd THEN fd["required"] ELSE FALSE
PlainIdentifier(name) == IF name = None THEN FALSE ELSE NameParse(name) = "IDENT"

\* the rules of the data model for one field entry under an index type
FieldRulesHold(type, fd) ==
    /\ type = SPATIAL => GivenRequired(fd)
    /\ type = INDEX => fd["type"] # GEOJSON
    /\ "collation" \in DOMAIN fd => StartsWith(fd["type"], TEXT)
    /\ "options" \in DOMAIN fd => fd["type"] = GEOJSON
    /\ "srid" \in DOMAIN fd => fd["type"] = GEOJSON

\* valid name, non-empty list of fields each with "field" and "type", index
\* type INDEX or SPATIAL, all rules satisfied, unique absent or false
WellFormedBody(name, desc) ==
    /\ PlainIdentifier(name)
    /\ Len(GivenFieldList(desc)) >= 1
    /\ GivenType(desc) \in {INDEX, SPATIAL}
    /\ ~GivenUnique(desc)
    /\ \A i \in DOMAIN GivenFieldList(desc) :
          LET fd == GivenFieldList(desc)[i] IN
            /\ {"field", "type"} \subseteq DOMAIN fd
            /\ FieldRulesHold(GivenType(desc), fd)
\* no key outside the recognized ones, at the top level and in the entries
NoExtraneousKeys(desc) ==
    /\ DOMAIN desc \subseteq TopLevelKeys
    /\ \A i \in DOMAIN GivenFieldList(desc) :
          DOMAIN GivenFieldList(desc)[i] \subseteq InnerKeys
WellFormed(name, desc) == WellFormedBody(name, desc) /\ NoExtraneousKeys(desc)

\* constraint c carries the member path, scalar type and required value of
\* field entry fd
ConstraintOf(c, fd) ==
    /\ c["member"] = fd["field"]
    /\ c["type"] = fd["type"]
    /\ c["required"] = GivenRequired(fd)
\* the latest execute() raised and the connection has never been called
Rejected == executed >= 1 => (result.exc # None /\ transport = <<>>)

\* C4: with "unique" present and true (in a descriptor with nothing else
\* to object to, so that the unique check decides), every execute() raises
\* NotSupportedError and the connection is never called.
C4_UniqueAlwaysRejected ==
    ( /\ IsIndexStatement
      /\ GivenUnique(orig_desc)
      /\ WellFormed(index_name, [orig_desc EXCEPT !["unique"] = FALSE])
      /\ executed >= 1 ) =>
        /\ result.exc = "NotSupportedError"
        /\ transport = <<>>

\* C5: execute() on a statement built from a well-formed descriptor makes
\* exactly one administrative call, and the constraint list of every call
\* the connection receives has the length of the given field list and, at
\* each position, the member path, scalar type and required value of the
\* field entry at that position.
C5_WellFormedSendsConstraints ==
    IsIndexStatement =>
        /\ (executed = 1 /\ WellFormed(index_name, orig_desc)) =>
              (result.exc = None /\ Len(transport) = 1)
        /\ \A n \in DOMAIN transport :
              LET constraint == transport[n].args.constraint
                  given == GivenFieldList(orig_desc)
              IN  /\ transport[n].op = "execute_nonquery"
                  /\ Len(constraint) = Len(given)
                  /\ \A i \in DOMAIN given : ConstraintOf(constraint[i], given[i])

\* C5 witness: a well-formed descriptor with two different field entries,
\* one relying on the default of "required", has been executed and sent.
C5_Witness ==
    /\ IsIndexStatement
    /\ executed = 1
    /\ WellFormed(index_name, orig_desc)
    /\ Len(GivenFieldList(orig_desc)) = 2
    /\ GivenFieldList(orig_desc)[1] # GivenFieldList(orig_desc)[2]
    /\ "required" \notin DOMAIN GivenFieldList(orig_desc)[2]
    /\ Len(transport) = 1

\* some field entry of the descriptor has "required" false or absent
SomeFieldNotRequired(desc) ==
    \E i \in DOMAIN GivenFieldList(desc) : ~GivenRequired(GivenFieldList(desc)[i])

\* C6: every args structure handed to the connection with index type
\* SPATIAL (in any letter case) has required = true on every constraint;
\* the first execute() of a SPATIAL descriptor with a field entry whose
\* "required" is false or absent raises without calling the connection,
\* and so does every later one unless "unique" was given true; when that
\* field is all that is wrong, the error is the ProgrammingError of the rule.
C6_SpatialNeedsRequired ==
    IsIndexStatement =>
        /\ \A n \in DOMAIN transport :
              Upper(transport[n].args.type) = SPATIAL =>
                 \A i \in DOMAIN transport[n].args.constraint :
                    transport[n].args.constraint[i]["required"] = TRUE
        /\ ( /\ executed = 1 \/ (executed > 1 /\ ~GivenUnique(orig_desc))
             /\ GivenType(orig_desc) = SPATIAL
             /\ SomeFieldNotRequired(orig_desc) ) =>
                (result.exc # None /\ transport = <<>>)
        /\ ( /\ executed = 1
             /\ GivenType(orig_desc) = SPATIAL
             /\ WellFormedBody(index_name, [orig_desc EXCEPT !["type"] = INDEX])
             /\ DOMAIN orig_desc \subseteq TopLevelKeys
             /\ SomeFieldNotRequired(orig_desc) ) =>
                /\ result.exc = "ProgrammingError"
                /\ result.msg = "required must be True for SPATIAL"

\* C6 witness: a SPATIAL descriptor whose second field entry lacks
\* "required" has been refused for that reason.
C6_Witness ==
    /\ IsIndexStatement
    /\ executed = 1
    /\ GivenType(orig_desc) = SPATIAL
    /\ Len(GivenFieldList(orig_desc)) = 2
    /\ GivenRequired(GivenFieldList(orig_desc)[1])
    /\ "required" \notin DOMAIN GivenFieldList(orig_desc)[2]
    /\ result.msg = "required must be True for SPATIAL"
    /\ transport = <<>>

IllegalMember(fd) ==
    IF "type" \notin DOMAIN fd THEN FALSE
    ELSE \/ "collation" \in DOMAIN fd /\ ~StartsWith(fd["type"], TEXT)
         \/ "options" \in DOMAIN fd /\ fd["type"] # GEOJSON
         \/ "srid" \in DOMAIN fd /\ fd["type"] # GEOJSON

\* C8: a descriptor with a field entry that has "collation" on a scalar
\* type not starting with TEXT, or "options" or "srid" on a scalar type
\* other than GEOJSON, is refused by every execute() without a call to the
\* connection; a well-formed descriptor is sent by its first execute(), and
\* every constraint the connection receives has exactly the collation,
\* options and srid members of its field entry, with their values.
C8_OptionalMembers ==
    IsIndexStatement =>
        /\ (\E i \in DOMAIN GivenFieldList(orig_desc) :
               IllegalMember(GivenFieldList(orig_desc)[i])) => Rejected
        /\ (executed = 1 /\ WellFormed(index_name, orig_desc)) =>
              Len(transport) = 1
        /\ \A n \in DOMAIN transport :
              \A i \in DOMAIN transport[n].args.constraint :
                 LET c == transport[n].args.constraint[i]
                     fd == GivenFieldList(orig_desc)[i]
                 IN  \A k \in {"collation", "options", "srid"} :
                        /\ k \in DOMAIN c <=> k \in DOMAIN fd
                        /\ k \in DOMAIN fd => c[k] = fd[k]

\* C8 witness: a descriptor with a legal collation on its first entry and
\* legal options and srid on its second has been sent.
C8_Witness ==
    /\ IsIndexStatement
    /\ Len(transport) = 1
    /\ Len(GivenFieldList(orig_desc)) = 2
    /\ "collation" \in DOMAIN GivenFieldList(orig_desc)[1]
    /\ {"options", "srid"} \subseteq DOMAIN GivenFieldList(orig_desc)[2]

\* the keys of the descriptor no attribute consumes
ExtraTopKeys(desc) == DOMAIN desc \ TopLevelKeys
ExtraInnerKeys(fd) == DOMAIN fd \ InnerKeys
\* the descriptor without its unrecognized keys
Recognized(desc) ==
    LET top == [k \in DOMAIN desc \cap TopLevelKeys |-> desc[k]] IN
    IF "fields" \in DOMAIN top
    THEN IF IsList(top["fields"])
         THEN [top EXCEPT !["fields"] = PyList(
                 [i \in DOMAIN top["fields"].list |->
                    [k \in DOMAIN top["fields"].list[i] \cap InnerKeys |->
                        top["fields"].list[i][k]]])]
         ELSE top
    ELSE top
\* the first field entry with an unrecognized key
FirstExtraInner(desc) ==
    CHOOSE i \in DOMAIN GivenFieldList(desc) :
        /\ ExtraInnerKeys(GivenFieldList(desc)[i]) # {}
        /\ \A j \in 1..(i - 1) : ExtraInnerKeys(GivenFieldList(desc)[j]) = {}

\* C9: a descriptor with a top-level key other than fields, type, unique,
\* or a field entry with a key other than field, type, required, collation,
\* options, srid, is refused by every execute() without a call to the
\* connection; when the unrecognized keys are all that is wrong with it,
\* the first execute() raises ProgrammingError naming them (the top-level
\* ones, else those of the first field entry that has some).
C9_UnidentifiedKeysRejected ==
    IsIndexStatement =>
        /\ ~NoExtraneousKeys(orig_desc) => Rejected
        /\ ( /\ executed = 1
             /\ ~NoExtraneousKeys(orig_desc)
             /\ WellFormed(index_name, Recognized(orig_desc)) ) =>
                /\ result.exc = "ProgrammingError"
                /\ IF ExtraTopKeys(orig_desc) # {}
                   THEN /\ result.msg = "Unidentified fields"
                        /\ result.keys = ExtraTopKeys(orig_desc)
                   ELSE /\ result.msg = "Unidentified inner fields"
                        /\ result.keys = ExtraInnerKeys(
                              GivenFieldList(orig_desc)[FirstExtraInner(orig_desc)])

\* C9 witness for the inner keys: a descriptor whose only defect is the key
\* "foo" in its second field entry has been refused naming it.
C9_Witness ==
    /\ IsIndexStatement
    /\ executed = 1
    /\ ExtraTopKeys(orig_desc) = {}
    /\ Len(GivenFieldList(orig_desc)) = 2
    /\ ExtraInnerKeys(GivenFieldList(orig_desc)[1]) = {}
    /\ result.msg = "Unidentified inner fields"
    /\ result.keys = {"foo"}
    /\ transport = <<>>

----------------------------------------------------------------------------
(* AddStatement.                                                           *)

MaxDocs == 3      \* documents accumulated by one AddStatement

\* Python values by type
PyDict(d) == [dict |-> d]
PyDbDoc(d) == [dbdoc |-> d]
PyInt(n) == [int |-> n]
PyNone == [none |-> 0]
IsDict(v) == "dict" \in DOMAIN v
IsDbDoc(v) == "dbdoc" \in DOMAIN v
IsStr(v) == "str" \in DOMAIN v

\* flexible_params(*values)
flexible_params(args) ==
    IF Len(args) = 1 /\ IsList(args[1]) THEN args[1].list ELSE args

\* DbDoc(val) accepts a dict (it raises ValueError on a number)
DbDocAccepts(val) == IsDict(val)
DbDocOf(val) == PyDbDoc(val.dict)

\* the loop of AddStatement.add over the values still to add; it stops at
\* the first value DbDoc() refuses, the values before it stay appended
RECURSIVE AddLoop(_, _)
AddLoop(acc, vals) ==
    IF vals = <<>> THEN [values |-> acc, raised |-> FALSE]
    ELSE IF IsDbDoc(Head(vals))
         THEN AddLoop(Append(acc, Head(vals)), Tail(vals))
    ELSE IF DbDocAccepts(Head(vals))
         THEN AddLoop(Append(acc, DbDocOf(Head(vals))), Tail(vals))
    ELSE [values |-> acc, raised |-> TRUE]

\* AddStatement.add(*values)
Add(args) ==
    /\ kind = "AddStatement"
    /\ Len(values) + Len(flexible_params(args)) <= MaxDocs
    /\ LET out == AddLoop(values, flexible_params(args)) IN
        /\ values' = out.values
        /\ result' = IF out.raised
                     THEN Raised("add", "ValueError", "", {})
                     ELSE Returned("add", "self")
    /\ called' = Merge(Entry("add", args), called)
    /\ last_args' = args
    /\ parsed' = <<>>
    /\ UNCHANGED <<kind, filterVars, indexVars, groupVars, insert_fields,
                   sqlVars, identVars, transport, where_called, last_lock,
                   orig_desc, executed>>

\* What Result() holds when it is built without a connection
EmptyResult == "EmptyResult"

\* an execute() that never takes the early return
NoValues_Never == FALSE

\* the test "if len(self._values) == 0"
NoValues == Len(values) = 0

\* AddStatement.execute()
ExecuteAdd ==
    /\ kind = "AddStatement"
    /\ Len(transport) < MaxCalls
    /\ IF NoValues
       THEN /\ result' = Returned("execute", EmptyResult)
            /\ UNCHANGED transport
       ELSE /\ transport' = Append(transport, [op |-> "send_insert",
                                               values |-> values])
            /\ result' = Returned("execute", TransportResult)
    /\ last_args' = <<>>
    /\ parsed' = <<>>
    /\ UNCHANGED <<kind, filterVars, indexVars, groupVars, writeVars, sqlVars,
                   identVars, where_called, last_lock, orig_desc, executed,
                   called>>

\* Documents and argument lists the caller passes to add()
AddDocs == {PyDict(Entry("a", 1)), PyDbDoc(Entry("b", 2)), PyInt(5)}
AddArgs ==
    {<<>>, <<PyList(<<>>)>>}
    \cup {<<d>> : d \in AddDocs}
    \cup {<<d, e>> : d, e \in AddDocs}
    \cup {<<PyList(<<d, e>>)>> : d, e \in AddDocs}

InitAdd ==
    /\ kind = "AddStatement"
    /\ values = <<>>
    /\ insert_fields = <<>>
    /\ NoSqlState
    /\ NoFilterState
    /\ NoGroupState
    /\ NoIndexState
    /\ NoIdentState
    /\ called = EmptyDict
    /\ last_args = <<>>
    /\ parsed = <<>>
    /\ transport = <<>>
    /\ result = NoCall

NextAdd ==
    \/ \E args \in AddArgs : Add(args)
    \/ ExecuteAdd

SpecAdd == InitAdd /\ [][NextAdd]_vars

----------------------------------------------------------------------------
(* Properties of AddStatement, checked under SpecAdd.                      *)

\* C11: an add() call given no values or an empty list accumulates
\* nothing; an execute() with no document accumulated returns an empty
\* result and leaves the connection untouched, and an execute() with at
\* least one accumulated document makes exactly one insert call, carrying
\* the accumulated documents.
C11_EmptyAddIsNoOp ==
    [][ /\ (result'.op = "add" /\ flexible_params(last_args') = <<>>) =>
              values' = values
        /\ (result'.op = "execute" /\ values = <<>>) =>
              /\ result'.value = EmptyResult
              /\ transport' = transport
        /\ (result'.op = "execute" /\ values # <<>>) =>
              /\ result'.value = TransportResult
              /\ transport' = Append(transport, [op |-> "send_insert",
                                                 values |-> values]) ]_vars

\* C11 witness: after add() calls that accumulated nothing, execute() has
\* returned the empty result and the connection has not been called.
C11_Witness ==
    /\ kind = "AddStatement"
    /\ "add" \in DOMAIN called
    /\ values = <<>>
    /\ result.op = "execute"
    /\ result.value = EmptyResult
    /\ transport = <<>>

----------------------------------------------------------------------------
(* SelectStatement and the text it generates.                              *)
(* A text is the sequence of the pieces it is concatenated from.           *)

\* ",".join(fields) for a sequence of str values
RECURSIVE JoinComma(_)
JoinComma(fields) ==
    IF fields = <<>> THEN <<>>
    ELSE IF Len(fields) = 1 THEN <<fields[1].str>>
    ELSE <<fields[1].str, ",">> \o JoinComma(Tail(fields))

\* "{0}".format(n) for an int n: its decimal digits, "-" first if negative
DigitChars == <<"0", "1", "2", "3", "4", "5", "6", "7", "8", "9">>
RECURSIVE NatDigits(_)
NatDigits(n) ==
    IF n < 10 THEN <<DigitChars[n + 1]>>
    ELSE Append(NatDigits(n \div 10), DigitChars[(n % 10) + 1])
FormatInt(n) == IF n < 0 THEN <<"-">> \o NatDigits(-n) ELSE NatDigits(n)

\* ExprParser(text, True).parse_expr_list() accepts the joined text
ExprListParses(text) == \A i \in DOMAIN text : text[i] # "a +"
\* "{0}".format(obj) for the object _having holds: None, or the expression
\* tree the parser built (the rendering of its message, not the source text)
ExprRepr(tree) ==
    IF tree = NoExpr THEN "None"
    ELSE IF tree[3] = "a > 1"
         THEN "type: OPERATOR operator { name: > param { a } param { 1 } }"
    ELSE "type: OPERATOR operator { }"
\* self.schema.name and self.target.name
SchemaName == "s"
TableName == "t"

\* ReadStatement.group_by(*fields), FilterableStatement._set_group_by
GroupBy(fields) ==
    /\ kind \in ReadKinds
    /\ has_group_by' = TRUE
    /\ grouping_str' = JoinComma(flexible_params(fields))
    /\ called' = Merge(Entry("group_by", fields), called)
    /\ IF ExprListParses(JoinComma(flexible_params(fields)))
       THEN /\ grouping' = ParseTree(JoinComma(flexible_params(fields)),
                                     ~DocBased(kind))
            /\ result' = Returned("group_by", "self")
       ELSE /\ UNCHANGED grouping
            /\ result' = Raised("group_by", "ValueError", "", {})
    /\ parsed' = <<JoinComma(flexible_params(fields))>>
    /\ UNCHANGED <<kind, filterVars, indexVars, has_having, having,
                   projection_str, has_projection, projection_expr, writeVars,
                   sqlVars, identVars, transport, where_called, last_lock,
                   orig_desc, executed, last_args>>

\* ReadStatement.having(condition), FilterableStatement._set_having
Having(condition) ==
    /\ kind \in ReadKinds
    /\ has_having' = TRUE
    /\ called' = Merge(Entry("having", condition), called)
    /\ IF ExprParses(condition)
       THEN /\ having' = ParseTree(condition, ~DocBased(kind))
            /\ result' = Returned("having", "self")
       ELSE /\ UNCHANGED having
            /\ result' = Raised("having", "ValueError", "", {})
    /\ parsed' = <<condition>>
    /\ UNCHANGED <<kind, filterVars, indexVars, has_group_by, grouping_str,
                   grouping, projection_str, has_projection, projection_expr,
                   writeVars, sqlVars, identVars, transport, where_called,
                   last_lock, orig_desc, executed, last_args>>

\* the clauses of get_sql, each empty unless its flag is set
WhereClause == IF has_where THEN <<" WHERE ", where_str>> ELSE <<>>
GroupByClause == IF has_group_by THEN <<" GROUP BY ">> \o grouping_str ELSE <<>>
HavingClause == IF has_having THEN <<" HAVING ", ExprRepr(having)>> ELSE <<>>
OrderByClause == IF has_sort THEN <<" ORDER BY ", sort_str>> ELSE <<>>
LimitClause ==
    IF has_limit
    THEN <<" LIMIT ">> \o FormatInt(limit_row_count)
         \o <<" OFFSET ">> \o FormatInt(limit_offset)
    ELSE <<>>
SelectFrom ==
    <<"SELECT ">> \o (IF projection_str # <<>> THEN projection_str ELSE <<"*">>)
    \o <<" FROM ", SchemaName, ".", TableName>>

\* a get_sql that puts HAVING before GROUP BY
get_sql_HavingFirst ==
    SelectFrom \o WhereClause \o HavingClause \o GroupByClause
    \o OrderByClause \o LimitClause

\* the text SelectStatement.get_sql() returns
get_sql ==
    SelectFrom \o WhereClause \o GroupByClause \o HavingClause
    \o OrderByClause \o LimitClause

\* one call of SelectStatement.get_sql()
GetSql ==
    /\ kind = "SelectStatement"
    /\ result' = Returned("get_sql", get_sql)
    /\ parsed' = <<>>
    /\ UNCHANGED <<kind, filterVars, indexVars, groupVars, writeVars, sqlVars,
                   identVars, transport, callerVars>>

\* Arguments the caller passes
ProjectionFields == {<<>>, <<PyStr("a")>>, <<PyStr("a"), PyStr("b")>>}
GroupFields == {<<PyStr("a")>>, <<PyStr("a"), PyStr("b")>>,
                <<PyList(<<PyStr("b"), PyStr("a")>>)>>, <<PyStr("a +")>>}
HavingTexts == {"a > 1", "a >"}

\* SelectStatement.__init__(table, *fields); the attributes other than the
\* projection get the values FilterableStatement.__init__ and
\* ReadStatement.__init__ assign, which are those of NoFilterState
InitSelectStatement(fields) ==
    /\ kind = "SelectStatement"
    /\ NoFilterState
    /\ has_group_by = FALSE
    /\ grouping_str = <<>>
    /\ grouping = NoExpr
    /\ has_having = FALSE
    /\ having = NoExpr
    /\ projection_str = JoinComma(flexible_params(fields))
    /\ has_projection = TRUE
    /\ projection_expr = ParseTree(JoinComma(flexible_params(fields)), TRUE)
    /\ called = Entry("__init__", fields)
    /\ last_args = <<>>
    /\ parsed = <<JoinComma(flexible_params(fields))>>

InitSelect ==
    /\ \E fields \in ProjectionFields : InitSelectStatement(fields)
    /\ NoIndexState
    /\ NoWriteState
    /\ NoSqlState
    /\ NoIdentState
    /\ transport = <<>>
    /\ result = NoCall

NextSelect ==
    \/ \E c \in ConditionTexts : Where(c)
    \/ \E f \in GroupFields : GroupBy(f)
    \/ \E c \in HavingTexts : Having(c)
    \/ \E c \in SortTexts : Sort(c)
    \/ \E a \in LimitArgs : Limit(a[1], a[2])
    \/ GetSql

SpecSelect == InitSelect /\ [][NextSelect]_vars

----------------------------------------------------------------------------
(* Properties of SelectStatement.get_sql, checked under SpecSelect.        *)

ClauseKeywords == {"SELECT ", " FROM ", " WHERE ", " GROUP BY ", " HAVING ",
                   " ORDER BY ", " LIMIT ", " OFFSET "}
IsKeyword(piece) == piece \in ClauseKeywords
\* the keywords of a generated text, in the order they appear
Keywords(sql) == SelectSeq(sql, IsKeyword)
\* the pieces from position i up to the next keyword
RECURSIVE TextFrom(_, _)
TextFrom(sql, i) ==
    IF i > Len(sql) THEN <<>>
    ELSE IF IsKeyword(sql[i]) THEN <<>>
    ELSE <<sql[i]>> \o TextFrom(sql, i + 1)
\* what follows the keyword kw in the text
ClauseText(sql, kw) ==
    TextFrom(sql, 1 + CHOOSE i \in DOMAIN sql : sql[i] = kw)
\* kws if the caller has called the mutator, nothing otherwise
IfCalled(mutator, kws) == IF mutator \in DOMAIN called THEN kws ELSE <<>>
\* get_sql() has just returned on a SelectStatement
SqlGenerated == kind = "SelectStatement" /\ result.op = "get_sql"

\* C12: the text get_sql() returns starts with SELECT, the joined
\* projection fields (or * when none were given), FROM schema.table, and
\* continues with the clauses WHERE, GROUP BY, HAVING, ORDER BY and
\* LIMIT..OFFSET in that order, each one present exactly when its mutator
\* has been called, whatever the order of the calls.
C12_ClauseOrder ==
    SqlGenerated =>
        LET sql == result.value IN
        /\ Keywords(sql) =
              <<"SELECT ", " FROM ">>
              \o IfCalled("where", <<" WHERE ">>)
              \o IfCalled("group_by", <<" GROUP BY ">>)
              \o IfCalled("having", <<" HAVING ">>)
              \o IfCalled("sort", <<" ORDER BY ">>)
              \o IfCalled("limit", <<" LIMIT ", " OFFSET ">>)
        /\ ClauseText(sql, "SELECT ") =
              IF called["__init__"] = <<>> THEN <<"*">>
              ELSE JoinComma(called["__init__"])
        /\ ClauseText(sql, " FROM ") = <<SchemaName, ".", TableName>>

\* C12 witness: all five mutators were called, limit() last of the
\* successful ones before sort() failed, and get_sql() has returned.
C12_Witness ==
    /\ SqlGenerated
    /\ DOMAIN called = {"__init__", "where", "group_by", "having", "sort",
                        "limit"}
    /\ called["__init__"] # <<>>
    /\ sort_expr = Unset

\* C13: in the text get_sql() returns, WHERE is followed by the text last
\* passed to where(), GROUP BY by the joined fields last passed to
\* group_by(), ORDER BY by the text last passed to sort(), and HAVING,
\* once having() has parsed a condition, by the text last passed to
\* having().
C13_ClausesCarryRawText ==
    SqlGenerated =>
        LET sql == result.value IN
        /\ "where" \in DOMAIN called =>
              ClauseText(sql, " WHERE ") = <<called["where"]>>
        /\ "group_by" \in DOMAIN called =>
              ClauseText(sql, " GROUP BY ") =
                  JoinComma(flexible_params(called["group_by"]))
        /\ "sort" \in DOMAIN called =>
              ClauseText(sql, " ORDER BY ") = <<called["sort"]>>
        /\ ("having" \in DOMAIN called /\ having # NoExpr) =>
              ClauseText(sql, " HAVING ") = <<called["having"]>>

----------------------------------------------------------------------------
(* FilterableStatement.bind with every argument shape.                     *)
(* A JSON text is the sequence of its tokens: punctuation [p |-> c],       *)
(* string literals [s |-> text] and numbers [n |-> value].                 *)

MaxBindings == 2  \* entries the bindings list may hold when bind(*args) is called

Punct(c) == [p |-> c]
JStr(text) == [s |-> text]
JNum(n) == [n |-> n]
IsJStr(tok) == "s" \in DOMAIN tok
IsJScalar(tok) == "s" \in DOMAIN tok \/ "n" \in DOMAIN tok
\* the Python value of a scalar token
JValue(tok) == IF IsJStr(tok) THEN PyStr(tok.s) ELSE PyInt(tok.n)

\* d[key] = value on an insertion-ordered dict held as a sequence of pairs
SetItem(pairs, key, value) ==
    IF \E i \in DOMAIN pairs : pairs[i].key = key
    THEN [i \in DOMAIN pairs |->
            IF pairs[i].key = key THEN [key |-> key, value |-> value]
            ELSE pairs[i]]
    ELSE Append(pairs, [key |-> key, value |-> value])

\* json.loads on the members of an object: "key": scalar, separated by ","
RECURSIVE JsonMembers(_, _)
JsonMembers(toks, acc) ==
    IF Len(toks) < 3 THEN [valid |-> FALSE, pairs |-> <<>>]
    ELSE IF ~(IsJStr(toks[1]) /\ toks[2] = Punct(":") /\ IsJScalar(toks[3]))
         THEN [valid |-> FALSE, pairs |-> <<>>]
    ELSE LET next == SetItem(acc, toks[1].s, JValue(toks[3]))
             rest == SubSeq(toks, 4, Len(toks)) IN
         IF rest = <<>> THEN [valid |-> TRUE, pairs |-> next]
         ELSE IF rest[1] = Punct(",") THEN JsonMembers(Tail(rest), next)
         ELSE [valid |-> FALSE, pairs |-> <<>>]

\* json.loads on the elements of an array of scalars
RECURSIVE JsonElements(_)
JsonElements(toks) ==
    IF toks = <<>> THEN FALSE
    ELSE IF ~IsJScalar(toks[1]) THEN FALSE
    ELSE IF Len(toks) = 1 THEN TRUE
    ELSE toks[2] = Punct(",") /\ JsonElements(SubSeq(toks, 3, Len(toks)))

JsonInvalid == [valid |-> FALSE, type |-> "none", pairs |-> <<>>]
\* json.loads(text): invalid (ValueError), or the decoded value's type and,
\* for an object, its key/value pairs
JsonLoads(text) ==
    LET inner == SubSeq(text, 2, Len(text) - 1) IN
    IF Len(text) = 1 /\ IsJScalar(text[1])
    THEN [valid |-> TRUE, type |-> "scalar", pairs |-> <<>>]
    ELSE IF Len(text) >= 2 /\ text[1] = Punct("{")
                           /\ text[Len(text)] = Punct("}")
    THEN IF inner = <<>>
         THEN [valid |-> TRUE, type |-> "dict", pairs |-> <<>>]
         ELSE IF JsonMembers(inner, <<>>).valid
         THEN [valid |-> TRUE, type |-> "dict",
               pairs |-> JsonMembers(inner, <<>>).pairs]
         ELSE JsonInvalid
    ELSE IF Len(text) >= 2 /\ text[1] = Punct("[")
                           /\ text[Len(text)] = Punct("]")
    THEN IF inner = <<>> \/ JsonElements(inner)
         THEN [valid |-> TRUE, type |-> "list", pairs |-> <<>>]
         ELSE JsonInvalid
    ELSE JsonInvalid

\* an isinstance test that lets every decoded value through
DecodesToDict_AnyValue(text) == JsonLoads(text).valid

\* the test of lines 215-217: the text decodes, and to a dict
DecodesToDict(text) == JsonLoads(text).valid /\ JsonLoads(text).type = "dict"

\* str(doc) of a DbDoc: the JSON text of its items, in some fixed order
RECURSIVE JsonDumps(_)
JsonDumps(d) ==
    IF DOMAIN d = {} THEN <<>>
    ELSE LET k == CHOOSE x \in DOMAIN d : TRUE
             rest == Without(d, k) IN
         <<JStr(k), Punct(":"), JNum(d[k])>>
         \o (IF DOMAIN rest = {} THEN <<>> ELSE <<Punct(",")>>)
         \o JsonDumps(rest)
DbDocStr(doc) == <<Punct("{")>> \o JsonDumps(doc.dbdoc) \o <<Punct("}")>>

\* the loop "for key in res.keys(): self.bind(key, res[key])"
BindPairs(list, pairs) ==
    list \o [i \in DOMAIN pairs |->
                [name |-> PyStr(pairs[i].key), value |-> pairs[i].value]]

\* FilterableStatement._bind_single(obj) on the bindings list: the list
\* afterwards and the exception raised, if any
RECURSIVE bind_single(_, _)
bind_single(list, obj) ==
    IF IsDbDoc(obj) THEN bind_single(list, PyStr(DbDocStr(obj)))
    ELSE IF IsStr(obj)
    THEN IF DecodesToDict(obj.str)
         THEN [bindings |-> BindPairs(list, JsonLoads(obj.str).pairs),
               exc |-> None, msg |-> ""]
         ELSE [bindings |-> list, exc |-> "ProgrammingError",
               msg |-> "Invalid JSON string to bind"]
    ELSE [bindings |-> list, exc |-> "ProgrammingError",
          msg |-> "Invalid JSON string or object to bind"]

\* FilterableStatement.bind(*args)
BindArgs(args) ==
    /\ kind \in FilterableKinds
    /\ Len(bindings) < MaxBindings
    /\ has_bindings' = TRUE
    /\ last_args' = args
    /\ IF Len(args) = 1
       THEN LET out == bind_single(bindings, args[1]) IN
            /\ bindings' = out.bindings
            /\ result' = IF out.exc = None THEN Returned("bind", "self")
                         ELSE Raised("bind", out.exc, out.msg, {})
       ELSE IF Len(args) > 2
       THEN /\ UNCHANGED bindings
            /\ result' = Raised("bind", "ProgrammingError",
                                "Invalid number of arguments to bind", {})
       ELSE IF Len(args) = 0
       THEN /\ UNCHANGED bindings
            /\ result' = Raised("bind", "IndexError",
                                "tuple index out of range", {})
       ELSE /\ bindings' = Append(bindings, [name |-> args[1],
                                             value |-> args[2]])
            /\ result' = Returned("bind", "self")
    /\ parsed' = <<>>
    /\ UNCHANGED <<kind, has_where, where_str, where_expr, binding_map,
                   has_limit, limit_row_count, limit_offset, has_sort,
                   sort_str, sort_expr, lock_shared, lock_exclusive,
                   update_ops, indexVars, groupVars, writeVars, sqlVars,
                   identVars, transport, where_called, last_lock, orig_desc,
                   executed, called>>

\* Arguments the caller passes to bind()
JsonTexts ==
    { <<Punct("{"), Punct("}")>>,
      <<Punct("{"), JStr("a"), Punct(":"), JNum(1), Punct("}")>>,
      <<Punct("{"), JStr("a"), Punct(":"), JNum(1), Punct(","),
        JStr("b"), Punct(":"), JStr("x"), Punct("}")>>,
      <<Punct("{"), JStr("a"), Punct(":"), JNum(1), Punct(","),
        JStr("a"), Punct(":"), JNum(2), Punct("}")>>,
      <<Punct("["), JNum(1), Punct("]")>>,
      <<JNum(1)>>,
      <<Punct("{"), JStr("a"), Punct(":"), JNum(1)>>,
      <<Punct("{"), JStr("a"), JNum(1), Punct("}")>>,
      <<>> }
BindDocs == {PyDbDoc(Entry("a", 1)), PyDbDoc([a |-> 1, b |-> 2])}
BindArgTuples ==
    { <<>>,
      <<PyStr("p"), PyInt(1)>>,
      <<PyStr("q"), PyStr("x")>>,
      <<PyStr("p"), PyInt(1), PyInt(2)>>,
      <<PyInt(5)>> }
    \cup {<<PyStr(t)>> : t \in JsonTexts}
    \cup {<<d>> : d \in BindDocs}

InitBind ==
    /\ \E k \in {"FindStatement", "RemoveStatement"} :
          InitFilterable(k, None)
    /\ NoIndexState
    /\ NoWriteState
    /\ NoSqlState
    /\ NoIdentState
    /\ transport = <<>>
    /\ result = NoCall

NextBind == \E args \in BindArgTuples : BindArgs(args)

SpecBind == InitBind /\ [][NextBind]_vars

----------------------------------------------------------------------------
(* Properties of bind, checked under SpecBind.                             *)

\* C14: a bind() call with no argument or with more than two raises
\* ProgrammingError and leaves the bindings list as it was; bind(name,
\* value) appends exactly the entry {name, value}.
C14_BindArity ==
    [][ result'.op = "bind" =>
          /\ Len(last_args') \notin {1, 2} =>
                /\ result'.exc = "ProgrammingError"
                /\ bindings' = bindings
          /\ Len(last_args') = 2 =>
                /\ result'.exc = None
                /\ bindings' = Append(bindings, [name |-> last_args'[1],
                                                 value |-> last_args'[2]])
      ]_vars

\* the bindings the pairs of a decoded object stand for
PairBindings(pairs) ==
    [i \in DOMAIN pairs |->
        [name |-> PyStr(pairs[i].key), value |-> pairs[i].value]]
\* the keys of a decoded object
PairKeys(pairs) == {pairs[i].key : i \in DOMAIN pairs}

----------------------------------------------------------------------------
(* The stored limit, checked under Spec.                                   *)

\* C16: whatever limit() calls were made on a filterable statement, the
\* row count and the offset it stores are never negative.
C16_LimitNonNegative ==
    kind \in FilterableKinds =>
        /\ limit_row_count >= 0
        /\ limit_offset >= 0

----------------------------------------------------------------------------
(* The update mutators of ModifyStatement and UpdateStatement.             *)

MaxUpdates == 2   \* operations update_ops may hold when a mutator is called

\* UpdateSpec(update_type, source, value) raises (the parser's ValueError)
UpdateSpecRaises(update_type, source) ==
    IF update_type = "SET" THEN ~PathParses(source)
    ELSE ~PathParses(StripDollar(source))
\* the text UpdateSpec(update_type, source, value) hands to the parser
ParserInput(update_type, source) ==
    IF update_type = "SET" THEN source ELSE StripDollar(source)
\* the first item for which UpdateSpec raises, 0 if there is none
FirstRaising(update_type, items) ==
    IF \E i \in DOMAIN items : UpdateSpecRaises(update_type, items[i].str)
    THEN CHOOSE i \in DOMAIN items :
            /\ UpdateSpecRaises(update_type, items[i].str)
            /\ \A j \in 1..(i - 1) :
                  ~UpdateSpecRaises(update_type, items[j].str)
    ELSE 0
\* the object UpdateSpec(update_type, source, value) builds
UpdateSpec(update_type, source, value) ==
    IF update_type = "SET" THEN TableUpdateSpec(source, value)
    ELSE DocUpdateSpec(update_type, source, value)

\* the update type each ModifyStatement mutator passes to UpdateSpec
UpdateTypeOf(method) ==
    CASE method = "set" -> "ITEM_SET"
      [] method = "change" -> "ITEM_REPLACE"
      [] method = "unset" -> "ITEM_REMOVE"
      [] method = "array_insert" -> "ARRAY_INSERT"
      [] method = "array_append" -> "ARRAY_APPEND"
      [] method = "patch" -> "MERGE_PATCH"
ItemMethods == {"set", "change", "array_insert", "array_append"}

\* ModifyStatement.set / change / array_insert / array_append
ModifyItem(method, doc_path, value) ==
    /\ kind = "ModifyStatement"
    /\ Len(update_ops) < MaxUpdates
    /\ last_args' = <<PyStr(doc_path), value>>
    /\ IF UpdateSpecRaises(UpdateTypeOf(method), doc_path)
       THEN /\ UNCHANGED update_ops
            /\ result' = Raised(method, "ValueError", "", {})
       ELSE /\ update_ops' =
                  Append(update_ops,
                         UpdateSpec(UpdateTypeOf(method), doc_path, value))
            /\ result' = Returned(method, "self")
    /\ parsed' = <<ParserInput(UpdateTypeOf(method), doc_path)>>
    /\ UNCHANGED <<kind, has_where, where_str, where_expr, binding_map,
                   has_limit, limit_row_count, limit_offset, has_sort,
                   sort_str, sort_expr, has_bindings, bindings, lock_shared,
                   lock_exclusive, indexVars, groupVars, writeVars, sqlVars,
                   identVars, transport, where_called, last_lock, orig_desc,
                   executed, called>>

\* an unset() that appends each operation as soon as it is built
ModifyUnset_Partial(doc_paths) ==
    /\ kind = "ModifyStatement"
    /\ Len(update_ops) < MaxUpdates
    /\ last_args' = doc_paths
    /\ LET items == flexible_params(doc_paths) IN
       IF \E i \in DOMAIN items : UpdateSpecRaises("ITEM_REMOVE", items[i].str)
       THEN /\ update_ops' =
                  update_ops \o
                  [i \in 1..(FirstRaising("ITEM_REMOVE", items) - 1) |->
                      UpdateSpec("ITEM_REMOVE", items[i].str, PyNone)]
            /\ result' = Raised("unset", "ValueError", "", {})
       ELSE /\ update_ops' =
                  update_ops \o [i \in DOMAIN items |->
                      UpdateSpec("ITEM_REMOVE", items[i].str, PyNone)]
            /\ result' = Returned("unset", "self")
    /\ parsed' = LET items == flexible_params(doc_paths)
                   n == FirstRaising("ITEM_REMOVE", items) IN
               [i \in 1..(IF n = 0 THEN Len(items) ELSE n) |->
                   ParserInput("ITEM_REMOVE", items[i].str)]
    /\ UNCHANGED <<kind, has_where, where_str, where_expr, binding_map,
                   has_limit, limit_row_count, limit_offset, has_sort,
                   sort_str, sort_expr, has_bindings, bindings, lock_shared,
                   lock_exclusive, indexVars, groupVars, writeVars, sqlVars,
                   identVars, transport, where_called, last_lock, orig_desc,
                   executed, called>>

\* ModifyStatement.unset(*doc_paths): the list of UpdateSpec objects is
\* built first, so one path the parser refuses leaves update_ops as it was
ModifyUnset(doc_paths) ==
    /\ kind = "ModifyStatement"
    /\ Len(update_ops) < MaxUpdates
    /\ last_args' = doc_paths
    /\ LET items == flexible_params(doc_paths) IN
       IF \E i \in DOMAIN items : UpdateSpecRaises("ITEM_REMOVE", items[i].str)
       THEN /\ UNCHANGED update_ops
            /\ result' = Raised("unset", "ValueError", "", {})
       ELSE /\ update_ops' =
                  update_ops \o [i \in DOMAIN items |->
                      UpdateSpec("ITEM_REMOVE", items[i].str, PyNone)]
            /\ result' = Returned("unset", "self")
    /\ parsed' = LET items == flexible_params(doc_paths)
                   n == FirstRaising("ITEM_REMOVE", items) IN
               [i \in 1..(IF n = 0 THEN Len(items) ELSE n) |->
                   ParserInput("ITEM_REMOVE", items[i].str)]
    /\ UNCHANGED <<kind, has_where, where_str, where_expr, binding_map,
                   has_limit, limit_row_count, limit_offset, has_sort,
                   sort_str, sort_expr, has_bindings, bindings, lock_shared,
                   lock_exclusive, indexVars, groupVars, writeVars, sqlVars,
                   identVars, transport, where_called, last_lock, orig_desc,
                   executed, called>>

\* a type test that lets every document through
PatchAccepts_Any(doc) == TRUE

\* isinstance(doc, (dict, DbDoc, str))
PatchAccepts(doc) == IsDict(doc) \/ IsDbDoc(doc) \/ IsStr(doc)

\* ModifyStatement.patch(doc); '' is the empty sequence of characters
ModifyPatch(doc) ==
    /\ kind = "ModifyStatement"
    /\ Len(update_ops) < MaxUpdates
    /\ last_args' = <<doc>>
    /\ LET given == IF doc = PyNone THEN PyStr(<<>>) ELSE doc IN
       IF ~PatchAccepts(given)
       THEN /\ UNCHANGED update_ops
            /\ result' = Raised("patch", "ProgrammingError",
                                "Invalid data for update operation", {})
       ELSE IF UpdateSpecRaises("MERGE_PATCH", <<>>)
       THEN /\ UNCHANGED update_ops
            /\ result' = Raised("patch", "ValueError", "", {})
       ELSE /\ update_ops' =
                  Append(update_ops, UpdateSpec("MERGE_PATCH", <<>>, given))
            /\ result' = Returned("patch", "self")
    /\ parsed' = IF PatchAccepts(IF doc = PyNone THEN PyStr(<<>>) ELSE doc)
               THEN <<ParserInput("MERGE_PATCH", <<>>)>> ELSE <<>>
    /\ UNCHANGED <<kind, has_where, where_str, where_expr, binding_map,
                   has_limit, limit_row_count, limit_offset, has_sort,
                   sort_str, sort_expr, has_bindings, bindings, lock_shared,
                   lock_exclusive, indexVars, groupVars, writeVars, sqlVars,
                   identVars, transport, where_called, last_lock, orig_desc,
                   executed, called>>

\* UpdateStatement.set(field, value)
TableSet(field, value) ==
    /\ kind = "UpdateStatement"
    /\ Len(update_ops) < MaxUpdates
    /\ last_args' = <<PyStr(field), value>>
    /\ IF UpdateSpecRaises("SET", field)
       THEN /\ UNCHANGED update_ops
            /\ result' = Raised("set", "ValueError", "", {})
       ELSE /\ update_ops' = Append(update_ops, UpdateSpec("SET", field, value))
            /\ result' = Returned("set", "self")
    /\ parsed' = <<ParserInput("SET", field)>>
    /\ UNCHANGED <<kind, has_where, where_str, where_expr, binding_map,
                   has_limit, limit_row_count, limit_offset, has_sort,
                   sort_str, sort_expr, has_bindings, bindings, lock_shared,
                   lock_exclusive, indexVars, groupVars, writeVars, sqlVars,
                   identVars, transport, where_called, last_lock, orig_desc,
                   executed, called>>

\* Arguments the caller passes
UpdateValues == {PyInt(1), PyStr(<<"x">>)}
UnsetArgs ==
    {<<PyStr(p)>> : p \in DocPaths}
    \cup {<<PyStr(p), PyStr(q)>> : p, q \in DocPaths}
    \cup {<<PyList(<<PyStr(<<"$", ".", "a">>), PyStr(<<"a", ".", "b">>)>>)>>}
PatchDocs ==
    {PyDict(Entry("a", 1)), PyDbDoc(Entry("b", 2)),
     PyStr(<<Punct("{"), JStr("a"), Punct(":"), JNum(1), Punct("}")>>),
     PyNone, PyInt(5), PyList(<<PyInt(1)>>)}

InitModify ==
    /\ \E k \in {"ModifyStatement", "UpdateStatement"} :
          InitFilterable(k, None)
    /\ NoIndexState
    /\ NoWriteState
    /\ NoSqlState
    /\ NoIdentState
    /\ transport = <<>>
    /\ result = NoCall

NextModify ==
    \/ \E m \in ItemMethods, p \in DocPaths, v \in UpdateValues :
          ModifyItem(m, p, v)
    \/ \E ps \in UnsetArgs : ModifyUnset(ps)
    \/ \E d \in PatchDocs : ModifyPatch(d)
    \/ \E p \in DocPaths, v \in UpdateValues : TableSet(p, v)

SpecModify == InitModify /\ [][NextModify]_vars

----------------------------------------------------------------------------
(* Properties of the update mutators, checked under SpecModify.            *)

\* the path without its first character when that is "$"
OneDollarLess(path) ==
    IF path # <<>> /\ Head(path) = "$" THEN SubSeq(path, 2, Len(path))
    ELSE path
\* the text the mutator's call hands to the parser, given the path passed
ParsedText(k, path) ==
    IF k = "UpdateStatement" THEN path ELSE OneDollarLess(path)
\* the operation the call stores for one path and value
StoredOp(k, method, path, value) ==
    [update_type |-> IF k = "UpdateStatement" THEN "SET"
                     ELSE UpdateTypeOf(method),
     source |-> <<IF k = "UpdateStatement" THEN "column" ELSE "identifier",
                  ParsedText(k, path)>>,
     value |-> value]
PathMethods == ItemMethods \cup {"unset"}

\* C17: set, change, array_insert and array_append on a ModifyStatement,
\* and each path of unset, hand the parser of document fields the path
\* less exactly one leading "$" (a second "$" stays), and set on an
\* UpdateStatement hands the parser of table fields the path as given;
\* the call raises exactly when the parser refuses that text, and the
\* operations it appends hold the update type of the mutator, the parsed
\* text and the value given.
C17_PathResolution ==
    [][ result'.op \in PathMethods =>
          LET paths == IF result'.op = "unset"
                       THEN flexible_params(last_args')
                       ELSE <<last_args'[1]>>
              value == IF result'.op = "unset" THEN PyNone
                       ELSE last_args'[2] IN
          /\ result'.exc = None <=>
                \A i \in DOMAIN paths :
                    PathParses(ParsedText(kind, paths[i].str))
          /\ result'.exc = None =>
                update_ops' = update_ops \o
                    [i \in DOMAIN paths |->
                        StoredOp(kind, result'.op, paths[i].str, value)]
      ]_vars

\* C17 witness: after an earlier operation, change() was given a path
\* that starts with "$" and the list now ends with an ITEM_REPLACE
\* operation on the path without it.
C17_Witness ==
    /\ kind = "ModifyStatement"
    /\ result.op = "change"
    /\ result.exc = None
    /\ last_args[1] = PyStr(<<"$", ".", "a">>)
    /\ Len(update_ops) = 2
    /\ update_ops[2].update_type = "ITEM_REPLACE"
    /\ update_ops[2].source = <<"identifier", <<".", "a">>>>

\* C18: patch(doc) with a dict, a DbDoc or a text appends exactly one
\* MERGE_PATCH operation with the empty path and doc as value; patch(None)
\* appends one with the empty text as value; with a value of any other
\* type it raises ProgrammingError and update_ops stays as it was.
C18_Patch ==
    [][ result'.op = "patch" =>
          LET doc == last_args'[1] IN
          IF IsDict(doc) \/ IsDbDoc(doc) \/ IsStr(doc) \/ doc = PyNone
          THEN /\ result'.exc = None
               /\ update_ops' =
                     Append(update_ops,
                            [update_type |-> "MERGE_PATCH",
                             source |-> <<"identifier", <<>>>>,
                             value |-> IF doc = PyNone THEN PyStr(<<>>)
                                       ELSE doc])
          ELSE /\ result'.exc = "ProgrammingError"
               /\ update_ops' = update_ops ]_vars

\* C18 witness: after an earlier operation, patch(None) has appended a
\* MERGE_PATCH operation whose value is the empty text.
C18_Witness ==
    /\ result.op = "patch"
    /\ result.exc = None
    /\ last_args = <<PyNone>>
    /\ Len(update_ops) = 2
    /\ update_ops[2].update_type = "MERGE_PATCH"
    /\ update_ops[2].value = PyStr(<<>>)

----------------------------------------------------------------------------
(* The identifier functions. A string is the sequence of its characters;   *)
(* sql_mode is the sequence of the mode names it lists.                    *)

MaxIdLen == 3     \* characters of an identifier drawn from IdentAlphabet

\* the two quote characters, written by name
BackTick == "<backtick>"
DoubleQuote == "<double quote>"
\* "ANSI_QUOTES" in sql_mode
AnsiQuotes(mode) == \E i \in DOMAIN mode : mode[i] = "ANSI_QUOTES"

\* is_quoted_identifier(identifier, sql_mode) for a non-empty identifier
\* (identifier[0] raises IndexError on the empty one)
is_quoted_identifier(id, mode) ==
    IF AnsiQuotes(mode)
    THEN \/ (id[1] = BackTick /\ id[Len(id)] = BackTick)
         \/ (id[1] = DoubleQuote /\ id[Len(id)] = DoubleQuote)
    ELSE id[1] = BackTick /\ id[Len(id)] = BackTick

\* str.replace(q, q + q) for a one-character q
RECURSIVE Doubled(_, _)
Doubled(str, q) ==
    IF str = <<>> THEN <<>>
    ELSE (IF Head(str) = q THEN <<q, q>> ELSE <<Head(str)>>)
         \o Doubled(Tail(str), q)

\* quote_identifier(identifier, sql_mode)
quote_identifier(id, mode) ==
    IF Len(id) = 0 THEN <<BackTick, BackTick>>
    ELSE IF is_quoted_identifier(id, mode) THEN id
    ELSE IF AnsiQuotes(mode)
         THEN <<DoubleQuote>> \o Doubled(id, DoubleQuote) \o <<DoubleQuote>>
    ELSE <<BackTick>> \o Doubled(id, BackTick) \o <<BackTick>>

\* str.strip(q): without its leading and trailing characters q
RECURSIVE LStrip(_, _)
LStrip(str, q) ==
    IF str # <<>> /\ Head(str) = q THEN LStrip(Tail(str), q) ELSE str
RECURSIVE RStrip(_, _)
RStrip(str, q) ==
    IF str # <<>> /\ str[Len(str)] = q
    THEN RStrip(SubSeq(str, 1, Len(str) - 1), q) ELSE str
Strip(str, q) == RStrip(LStrip(str, q), q)

\* the positions at which delimiter occurs in str
Occurrences(str, delimiter) ==
    {i \in 1..(Len(str) - Len(delimiter) + 1) :
        SubSeq(str, i, i + Len(delimiter) - 1) = delimiter}
\* str.split(delimiter, 1)
Split1(str, delimiter) ==
    IF Occurrences(str, delimiter) = {} THEN <<str>>
    ELSE LET i == CHOOSE j \in Occurrences(str, delimiter) :
                     \A k \in Occurrences(str, delimiter) : j <= k IN
         <<SubSeq(str, 1, i - 1),
           SubSeq(str, i + Len(delimiter), Len(str))>>

\* parse_table_name(default_schema, table_name, sql_mode)
parse_table_name(default_schema, table_name, mode) ==
    LET quote == IF AnsiQuotes(mode) THEN DoubleQuote ELSE BackTick
        delimiter == IF \E i \in DOMAIN table_name : table_name[i] = quote
                     THEN <<".", quote>> ELSE <<".">>
        temp == Split1(table_name, delimiter) IN
    <<IF Len(temp) = 1 THEN default_schema ELSE Strip(temp[1], quote),
      Strip(temp[Len(temp)], quote)>>

\* one call of each function on the identifier at hand
IsQuotedIdentifier ==
    /\ result' = IF identifier = <<>>
                 THEN Raised("is_quoted_identifier", "IndexError",
                             "string index out of range", {})
                 ELSE Returned("is_quoted_identifier",
                               is_quoted_identifier(identifier, sql_mode))
    /\ parsed' = <<>>
    /\ UNCHANGED <<kind, filterVars, indexVars, groupVars, writeVars, sqlVars,
                   identVars, transport, callerVars>>

QuoteIdentifier ==
    /\ result' = Returned("quote_identifier",
                          quote_identifier(identifier, sql_mode))
    /\ parsed' = <<>>
    /\ UNCHANGED <<kind, filterVars, indexVars, groupVars, writeVars, sqlVars,
                   identVars, transport, callerVars>>

DefaultSchema == <<"d">>

ParseTableName ==
    /\ result' = Returned("parse_table_name",
                          parse_table_name(DefaultSchema, identifier,
                                           sql_mode))
    /\ parsed' = <<>>
    /\ UNCHANGED <<kind, filterVars, indexVars, groupVars, writeVars, sqlVars,
                   identVars, transport, callerVars>>

\* Arguments the caller passes: every string of up to MaxIdLen characters
\* of the alphabet, and table references made of plain or quoted names
IdentAlphabet == {"a", BackTick, DoubleQuote}
Identifiers == UNION {[1..n -> IdentAlphabet] : n \in 0..MaxIdLen}
PlainNames == {<<"t">>, <<"s", "c">>}
Wrap(name, q) == <<q>> \o name \o <<q>>
NameParts ==
    PlainNames \cup {Wrap(n, q) : n \in PlainNames,
                                  q \in {BackTick, DoubleQuote}}
TableRefs ==
    NameParts \cup {l \o <<".">> \o r : l \in NameParts, r \in NameParts}
SqlModes == {<<>>, <<"ANSI_QUOTES">>, <<"STRICT_ALL_TABLES", "ANSI_QUOTES">>}

InitIdent ==
    /\ kind = None
    /\ identifier \in Identifiers \cup TableRefs
    /\ sql_mode \in SqlModes
    /\ NoFilterState
    /\ NoGroupState
    /\ NoIndexState
    /\ NoWriteState
    /\ NoSqlState
    /\ called = EmptyDict
    /\ last_args = <<>>
    /\ parsed = <<>>
    /\ transport = <<>>
    /\ result = NoCall

NextIdent ==
    \/ IsQuotedIdentifier
    \/ QuoteIdentifier
    \/ ParseTableName

SpecIdent == InitIdent /\ [][NextIdent]_vars

----------------------------------------------------------------------------
(* Properties of the identifier functions, checked under SpecIdent.        *)

\* the quote characters of a mode
QuoteChars(mode) ==
    IF AnsiQuotes(mode) THEN {BackTick, DoubleQuote} ELSE {BackTick}
\* the identifier is wrapped in a pair of one of the mode's quote characters
Wrapped(id, mode) ==
    /\ Len(id) >= 2
    /\ id[1] \in QuoteChars(mode)
    /\ id[Len(id)] = id[1]
\* every pair q q replaced by one q, from the left
RECURSIVE Undoubled(_, _)
Undoubled(str, q) ==
    IF str = <<>> THEN <<>>
    ELSE IF Len(str) >= 2 /\ str[1] = q /\ str[2] = q
         THEN <<q>> \o Undoubled(SubSeq(str, 3, Len(str)), q)
    ELSE <<Head(str)>> \o Undoubled(Tail(str), q)
\* a wrapped identifier without its outer pair, the inner pairs un-doubled
Unquoted(quoted) ==
    Undoubled(SubSeq(quoted, 2, Len(quoted) - 1), quoted[1])

\* C19: in both SQL modes, quote_identifier returns an identifier that is
\* already wrapped in a pair of quote characters as it is; for any other
\* identifier it returns a text that is_quoted_identifier accepts, that is
\* wrapped in a pair of quote characters, and from which removing the pair
\* and un-doubling gives back the identifier; quoting the result again
\* returns it unchanged; the empty identifier gives two backticks.
C19_QuotingRoundTrip ==
    result.op = "quote_identifier" =>
        LET quoted == result.value IN
        /\ identifier = <<>> => quoted = <<BackTick, BackTick>>
        /\ Wrapped(identifier, sql_mode) => quoted = identifier
        /\ ~Wrapped(identifier, sql_mode) =>
              /\ is_quoted_identifier(quoted, sql_mode)
              /\ Wrapped(quoted, sql_mode)
              /\ Unquoted(quoted) = identifier
        /\ quote_identifier(quoted, sql_mode) = quoted

\* the active quote character of a mode
ActiveQuote(mode) == IF AnsiQuotes(mode) THEN DoubleQuote ELSE BackTick
\* a name as written in a reference: plain, or wrapped in the active quote
Written(name, quoted, mode) ==
    IF quoted THEN Wrap(name, ActiveQuote(mode)) ELSE name

\* C20: parse_table_name returns (default schema, name) for a reference
\* that is one name, plain or wrapped in the active quote character, and
\* (left name, right name) for a reference left.right in which each side
\* is plain or wrapped in the active quote character.
C20_ParseTableName ==
    result.op = "parse_table_name" =>
        /\ \A n \in PlainNames, w \in BOOLEAN :
              identifier = Written(n, w, sql_mode) =>
                  result.value = <<DefaultSchema, n>>
        /\ \A l, r \in PlainNames, lw, rw \in BOOLEAN :
              identifier = Written(l, lw, sql_mode) \o <<".">>
                           \o Written(r, rw, sql_mode) =>
                  result.value = <<l, r>>

----------------------------------------------------------------------------
(* Repeated execute(), checked under SpecIndex.                            *)

\* C21: an execute() that directly follows another execute() on the same
\* statement, with no mutator call in between, has the outcome of the
\* first: the same error and no call to the connection, or the same
\* returned value and one more call of the same operation with an equal
\* descriptor (for the index statement, equal args).
C21_SecondExecuteSameOutcome ==
    [][ (result.op = "execute" /\ result'.op = "execute") =>
          /\ result'.exc = result.exc
          /\ result'.msg = result.msg
          /\ result'.value = result.value
          /\ result.exc # None => transport' = transport
          /\ (result.exc = None /\ result.value = TransportResult) =>
                /\ Len(transport') = Len(transport) + 1
                /\ transport'[Len(transport')] = transport[Len(transport)]
      ]_vars

----------------------------------------------------------------------------
(* The caller's descriptor, checked under SpecIndex.                       *)

----------------------------------------------------------------------------
(* The order of the validation stages, checked under SpecIndex.            *)

\* field entry fd breaks a per-field rule under the index type
FieldStageFails(type, fd) ==
    IF ~({"field", "type"} \subseteq DOMAIN fd) THEN TRUE
    ELSE \/ Upper(type) = SPATIAL /\ ~GivenRequired(fd)
         \/ Upper(type) = INDEX /\ fd["type"] = GEOJSON
         \/ IllegalMember(fd)
\* the lowest-numbered stage the descriptor violates, 0 if it violates none
LowestViolatedStage(name, desc) ==
    IF ~PlainIdentifier(name) THEN 1
    ELSE IF Len(GivenFieldList(desc)) = 0 THEN 2
    ELSE IF GivenUnique(desc) THEN 3
    ELSE IF ExtraTopKeys(desc) # {} THEN 4
    ELSE IF \E i \in DOMAIN GivenFieldList(desc) :
               FieldStageFails(GivenType(desc), GivenFieldList(desc)[i]) THEN 5
    ELSE IF \E i \in DOMAIN GivenFieldList(desc) :
               ExtraInnerKeys(GivenFieldList(desc)[i]) # {} THEN 6
    ELSE 0
\* the stage whose error an outcome of execute() carries, 0 if it returned
StageOfOutcome(res) ==
    CASE res.exc = None -> 0
      [] res.msg = "index name is not valid" -> 1
      [] res.msg \in {"Required member fields not found",
                      "fields must contain a list"} -> 2
      [] res.msg = "Unique indexes are not supported" -> 3
      [] res.msg = "Unidentified fields" -> 4
      [] res.msg \in {"Required inner member not found",
                      "required must be True for SPATIAL",
                      "GEOJSON needs index type SPATIAL",
                      "member not allowed for field type"} -> 5
      [] res.msg = "Unidentified inner fields" -> 6
      [] OTHER -> 7

\* C23: the execute() of a freshly built index statement raises the error
\* of the lowest-numbered stage its descriptor violates (name, fields,
\* unique, unidentified top-level keys, per-field rules, unidentified inner
\* keys), raising ProgrammingError at every stage but unique, which raises
\* NotSupportedError, and it calls the connection, once, exactly when the
\* descriptor violates no stage.
C23_StageOrder ==
    (IsIndexStatement /\ executed = 1) =>
        LET stage == LowestViolatedStage(index_name, orig_desc) IN
        /\ StageOfOutcome(result) = stage
        /\ stage \in {1, 2, 4, 5, 6} => result.exc = "ProgrammingError"
        /\ stage = 3 => result.exc = "NotSupportedError"
        /\ Len(transport) = (IF stage = 0 THEN 1 ELSE 0)

\* C23 witness: a descriptor that has "unique" true, an unidentified
\* top-level key, a field entry breaking a rule and one with an unidentified
\* key has been refused for "unique".
C23_Witness ==
    /\ IsIndexStatement
    /\ executed = 1
    /\ GivenUnique(orig_desc)
    /\ ExtraTopKeys(orig_desc) # {}
    /\ Len(GivenFieldList(orig_desc)) = 2
    /\ FieldStageFails(GivenType(orig_desc), GivenFieldList(orig_desc)[1])
    /\ ExtraInnerKeys(GivenFieldList(orig_desc)[2]) # {}
    /\ result.msg = "Unique indexes are not supported"
    /\ transport = <<>>

----------------------------------------------------------------------------
(* InsertStatement and SqlStatement: the two statements whose execute()    *)
(* goes to the connection without a test.                                  *)

MaxRows == 3      \* rows accumulated by one InsertStatement

\* a values() that adds each value as a row of its own
AppendRow_Extend(rows, args) == rows \o flexible_params(args)

\* self._values.append(list(flexible_params(*values)))
AppendRow(rows, args) == Append(rows, PyList(flexible_params(args)))

\* InsertStatement.values(*values)
InsertValues(args) ==
    /\ kind = "InsertStatement"
    /\ Len(values) < MaxRows
    /\ values' = AppendRow(values, args)
    /\ result' = Returned("values", "self")
    /\ called' = Merge(Entry("values", args), called)
    /\ last_args' = args
    /\ parsed' = <<>>
    /\ UNCHANGED <<kind, filterVars, indexVars, groupVars, insert_fields,
                   sqlVars, identVars, transport, where_called, last_lock,
                   orig_desc, executed>>

\* InsertStatement.execute(): the connection is handed the statement
ExecuteInsert ==
    /\ kind = "InsertStatement"
    /\ Len(transport) < MaxCalls
    /\ transport' = Append(transport, [op |-> "send_insert",
                                       values |-> values,
                                       fields |-> insert_fields])
    /\ result' = Returned("execute", TransportResult)
    /\ last_args' = <<>>
    /\ parsed' = <<>>
    /\ UNCHANGED <<kind, filterVars, indexVars, groupVars, writeVars, sqlVars,
                   identVars, where_called, last_lock, orig_desc, executed,
                   called>>

\* what the connection returns from send_sql
SendSqlReturn == "send_sql return value"
\* the object SqlResult(self._connection) the statement builds
SqlResult == "SqlResult(connection)"

\* SqlStatement.execute()
ExecuteSql ==
    /\ kind = "SqlStatement"
    /\ Len(transport) < MaxCalls
    /\ transport' = Append(transport, [op |-> "send_sql", sql |-> sql_text])
    /\ result' = Returned("execute", SqlResult)
    /\ last_args' = <<>>
    /\ parsed' = <<>>
    /\ UNCHANGED <<kind, filterVars, indexVars, groupVars, writeVars, sqlVars,
                   identVars, where_called, last_lock, orig_desc, executed,
                   called>>

\* Arguments the caller passes
InsertFields == {<<>>, <<PyStr("a"), PyStr("b")>>,
                 <<PyList(<<PyStr("a"), PyStr("b")>>)>>}
InsertRows == {<<>>, <<PyInt(1), PyStr("x")>>,
               <<PyList(<<PyInt(2), PyStr("y")>>)>>}
SqlTexts == {"SELECT 1", "SELECT"}

\* InsertStatement.__init__(table, *fields)
InitInsertStatement(fields) ==
    /\ kind = "InsertStatement"
    /\ values = <<>>
    /\ insert_fields = flexible_params(fields)
    /\ NoSqlState

\* SqlStatement.__init__(connection, sql)
InitSqlStatement(sql) ==
    /\ kind = "SqlStatement"
    /\ sql_text = sql
    /\ NoWriteState

InitPassThrough ==
    /\ \/ \E fields \in InsertFields : InitInsertStatement(fields)
       \/ \E sql \in SqlTexts : InitSqlStatement(sql)
    /\ NoFilterState
    /\ NoGroupState
    /\ NoIndexState
    /\ NoIdentState
    /\ called = EmptyDict
    /\ last_args = <<>>
    /\ parsed = <<>>
    /\ transport = <<>>
    /\ result = NoCall

NextPassThrough ==
    \/ \E args \in InsertRows : InsertValues(args)
    \/ ExecuteInsert
    \/ ExecuteSql

SpecPassThrough == InitPassThrough /\ [][NextPassThrough]_vars

----------------------------------------------------------------------------
(* Properties of InsertStatement and SqlStatement, checked under           *)
(* SpecPassThrough.                                                        *)

\* C22: each values() call on an InsertStatement appends exactly one row,
\* the list of the values given, after the rows already there; each
\* execute() returns and makes exactly one insert call carrying the rows
\* accumulated so far, whatever their number, zero included.
C22_InsertUnconditional ==
    [][ kind = "InsertStatement" =>
          /\ result'.op = "values" =>
                /\ Len(values') = Len(values) + 1
                /\ SubSeq(values', 1, Len(values)) = values
                /\ values'[Len(values')] = PyList(flexible_params(last_args'))
          /\ result'.op = "execute" =>
                /\ result'.exc = None
                /\ values' = values
                /\ transport' = Append(transport, [op |-> "send_insert",
                                                   values |-> values,
                                                   fields |-> insert_fields])
      ]_vars

\* C22 witness: execute() was called before any values() call and again
\* after two different rows were given; the connection received an insert
\* with no row and then one with the two rows in the order of the calls.
C22_Witness ==
    /\ kind = "InsertStatement"
    /\ result.op = "execute"
    /\ Len(transport) = 2
    /\ transport[1].values = <<>>
    /\ transport[2].values = <<PyList(<<PyInt(1), PyStr("x")>>),
                               PyList(<<PyInt(2), PyStr("y")>>)>>

\* C26: the value a successful execute() returns is the value the
\* connection operation it called returned.
C26_ResultPassedThrough ==
    [][ ( /\ result'.op = "execute"
          /\ result'.exc = None
          /\ Len(transport') = Len(transport) + 1 ) =>
            result'.value =
                IF transport'[Len(transport')].op = "send_sql"
                THEN SendSqlReturn ELSE TransportResult ]_vars

----------------------------------------------------------------------------
(* The parser and the update mutators, checked under SpecModify.           *)

\* C24: a patch() call hands no text to the expression parser, whether it
\* stores a MERGE_PATCH operation or refuses the document.
C24_PatchSkipsParser ==
    [][ result'.op = "patch" => Len(parsed') = 0 ]_vars

\* the paths a call of a path mutator was given
PathsGiven(method, args) ==
    IF method = "unset" THEN flexible_params(args) ELSE <<args[1]>>
\* the parser refuses the text of one of them
SomePathRefused(k, paths) ==
    \E i \in DOMAIN paths : ~PathParses(ParsedText(k, paths[i].str))

\* C25: a call of set, change, unset, array_insert or array_append on a
\* ModifyStatement, or of set on an UpdateStatement, with a path the
\* parser refuses raises ProgrammingError, the error of an invalid
\* condition, and leaves update_ops as it was.
C25_RefusedPathIsValidationError ==
    [][ ( /\ result'.op \in PathMethods
          /\ SomePathRefused(kind, PathsGiven(result'.op, last_args')) ) =>
            /\ result'.exc = "ProgrammingError"
            /\ update_ops' = update_ops ]_vars

\* C28: unset(p1, ..., pn) appends, when the parser accepts every path, n
\* ITEM_REMOVE operations without value in the order of the arguments, and
\* when it refuses one of them raises and leaves update_ops as it was,
\* the operations of the paths before that one included.
C28_UnsetAllOrNothing ==
    [][ result'.op = "unset" =>
          LET paths == flexible_params(last_args') IN
          IF SomePathRefused(kind, paths)
          THEN /\ result'.exc # None
               /\ update_ops' = update_ops
          ELSE /\ result'.exc = None
               /\ Len(update_ops') = Len(update_ops) + Len(paths)
               /\ SubSeq(update_ops', 1, Len(update_ops)) = update_ops
               /\ \A i \in DOMAIN paths :
                     update_ops'[Len(update_ops) + i] =
                         [update_type |-> "ITEM_REMOVE",
                          source |-> <<"identifier",
                                       OneDollarLess(paths[i].str)>>,
                          value |-> PyNone]
      ]_vars

\* C28 witness: after an earlier operation, unset() was given a path the
\* parser accepts followed by one it refuses; the call raised and the list
\* still holds the one earlier operation.
C28_Witness ==
    /\ kind = "ModifyStatement"
    /\ result.op = "unset"
    /\ result.exc # None
    /\ Len(last_args) = 2
    /\ PathParses(OneDollarLess(last_args[1].str))
    /\ ~PathParses(OneDollarLess(last_args[2].str))
    /\ Len(parsed) = 2
    /\ Len(update_ops) = 1

----------------------------------------------------------------------------
(* FindStatement with its sort, grouping, having and projection clauses.   *)

\* ExprParser(text, table_mode).parse_table_select_projection() accepts
\* the joined text
ProjectionParses(text) == \A i \in DOMAIN text : text[i] # "a +"

\* FindStatement.fields(*fields), FilterableStatement._set_projection
Fields(fields) ==
    /\ kind = "FindStatement"
    /\ has_projection' = TRUE
    /\ projection_str' = JoinComma(flexible_params(fields))
    /\ called' = Merge(Entry("fields", fields), called)
    /\ IF ProjectionParses(JoinComma(flexible_params(fields)))
       THEN /\ projection_expr' = ParseTree(JoinComma(flexible_params(fields)),
                                            ~DocBased(kind))
            /\ result' = Returned("fields", "self")
       ELSE /\ UNCHANGED projection_expr
            /\ result' = Raised("fields", "ValueError", "", {})
    /\ parsed' = <<JoinComma(flexible_params(fields))>>
    /\ UNCHANGED <<kind, filterVars, indexVars, has_group_by, grouping_str,
                   grouping, has_having, having, writeVars, sqlVars,
                   identVars, transport, where_called, last_lock, orig_desc,
                   executed, last_args>>

\* Arguments the caller passes to fields()
FindFields == {<<PyStr("a")>>, <<PyStr("a"), PyStr("b")>>,
               <<PyList(<<PyStr("b"), PyStr("a")>>)>>,
               <<PyStr("a"), PyStr("a +")>>}

InitFind ==
    /\ InitFilterable("FindStatement", None)
    /\ NoIndexState
    /\ NoWriteState
    /\ NoSqlState
    /\ NoIdentState
    /\ transport = <<>>
    /\ result = NoCall

NextFind ==
    \/ \E c \in SortTexts : Sort(c)
    \/ \E f \in GroupFields : GroupBy(f)
    \/ \E c \in HavingTexts : Having(c)
    \/ \E f \in FindFields : Fields(f)

SpecFind == InitFind /\ [][NextFind]_vars

----------------------------------------------------------------------------
(* Properties of the clause mutators, checked under SpecFind.              *)

ClauseMutators == {"sort", "group_by", "having", "fields"}

\* C27: a sort(), group_by(), having() or fields() call that raises
\* because the parser refuses its text leaves the flag, the stored text
\* and the parsed form of every clause as they were, so that after any
\* call the parsed form a clause holds is the one of the text it stores.
C27_RefusedClauseChangesNothing ==
    [][ result'.op \in ClauseMutators =>
          /\ result'.exc # None =>
                UNCHANGED <<has_sort, sort_str, sort_expr, has_group_by,
                            grouping_str, grouping, has_having, having,
                            has_projection, projection_str, projection_expr>>
          /\ has_sort' => sort_expr' = ParseTree(sort_str', ~DocBased(kind))
          /\ has_group_by' =>
                grouping' = ParseTree(grouping_str', ~DocBased(kind))
          /\ has_projection' =>
                projection_expr' = ParseTree(projection_str', ~DocBased(kind))
          /\ has_having' => having' # NoExpr
      ]_vars

----------------------------------------------------------------------------
(* The shape of a quoted identifier, checked under SpecIdent.              *)

\* C30: for every identifier and both SQL modes, an identifier that is a
\* single quote character included, the text quote_identifier returns has
\* at least two characters, begins with a quote character of the mode and
\* ends with the same character.
C30_QuotedIsWellFormed ==
    result.op = "quote_identifier" =>
        /\ Len(result.value) >= 2
        /\ result.value[1] \in QuoteChars(sql_mode)
        /\ result.value[Len(result.value)] = result.value[1]

====
